---- MODULE Spec2Model ----
(***************************************************************************)
(* Model of the test-run orchestration of backend/server.js: the           *)
(* single-project and run-all triggers, runTestsForProject with its child  *)
(* process and its promise, the result summarizer, the per-project history *)
(* file (read-modify-write by runs and by CI uploads) and the broadcasts.  *)
(*                                                                         *)
(* Every await of the code is a step boundary: other handlers may run      *)
(* between two steps of one handler, as on the Node.js event loop.         *)
(***************************************************************************)
EXTENDS Integers, Sequences, FiniteSets, TLC

VARIABLES
    clock,      \* the reading of Date.now()
    files,      \* results/<projectId>.json : Absent, Corrupt or a JSON text
    runs,       \* one entry per invocation of runTestsForProject
    batch,      \* the POST /api/run-all handler
    uploads,    \* one entry per invocation of POST /api/upload/:projectId
    clients,    \* the WebSocket of each observer: membership of the set, readyState
    wire,       \* the calls of broadcast() and what each WebSocket was sent
    replies,    \* the HTTP responses of the run endpoints
    manual      \* the manual-test tables of the database and the requests on them

vars == <<clock, files, runs, batch, uploads, clients, wire, replies, manual>>

---------------------------------------------------------------------------
(* Bounds of the model *)

MaxRuns     == 2        \* invocations of runTestsForProject
MaxUploads  == 1        \* invocations of the upload handler
MaxTicks    == 1        \* clock ticks during the execution
MaxChunks   == 3        \* stdout 'data' events of one child that carry lines
MaxOrdinal  == 3        \* largest number printed in a progress line
MaxCount    == 2        \* largest summary count of a report
MaxClients  == 2        \* WebSocket connections during the execution
MaxGrepLen  == 3        \* length of the short grep values of a request
MaxReplies  == 3        \* requests answered while the log is read
MaxPieces   == 3        \* pieces of text in one chunk of stdout
MaxRequests == 3        \* requests of the manual-test API during the execution
MaxSessions == 1        \* manual-test sessions created
MaxChecklist == 1       \* items of the checklist a session is created from

---------------------------------------------------------------------------
(* Program constants *)

HistoryCap    == 20     \* runs.slice(0, 20)
ErrPrefixLen  == 500    \* stdout.substring(0, 500)
GrepMax       == 100    \* sanitized.length <= 100

SELF_TEST_PROJECTS == {"test-dashboard"}

\* discoverProjects(): the directories that hold backend/e2e and a config, in
\* readdir order; canRunFromUI is false for the self-testing project.
DiscoveredOrder == <<"alpha", "beta", "test-dashboard">>
Discovered == {DiscoveredOrder[i] : i \in DOMAIN DiscoveredOrder}
\* mutant: every discovered project can be run from the UI
CanRunFromUIAlways(p) == TRUE

CanRunFromUI(p) == p \notin SELF_TEST_PROJECTS

\* project ids a request can name: discovered ones, an unknown one, the name
\* of a property every object inherits, and one with a character outside
\* [a-zA-Z0-9_-]
InheritedKeys == {"constructor"}
InvalidIds    == {"no/such"}
RequestIds    == Discovered \cup {"ghost"} \cup InheritedKeys \cup InvalidIds

\* project ids the CI uploads name
UploadTargets == {"alpha"}

---------------------------------------------------------------------------
(* Values *)

\* Sentinels. Where the other values of a slot are records the sentinel is a
\* record too, where they are strings it is a string.
Null      == "null"                 \* JavaScript null, in a string slot
Missing   == "undefined"            \* JavaScript undefined, in a string slot
Undefined == [undefined |-> TRUE]   \* JavaScript undefined, in an object slot
Pending   == [pending |-> TRUE]     \* a promise that is not settled
Absent    == [enoent |-> TRUE]      \* no such file
Corrupt   == [truncated |-> TRUE]   \* a file cut short by a failed write
NoJson    == [notfound |-> TRUE]    \* indexOf / lastIndexOf returned -1
Invalid   == [syntaxError |-> TRUE] \* JSON.parse throws on the candidate
NoEvent   == <<>>                   \* the event has not fired
NullObject == [null |-> TRUE]       \* JavaScript null, in an object slot
NullGrep  == <<Null>>               \* JavaScript null, in a slot of character sequences
NoGrep    == <<Missing>>            \* a request body without grep

\* the (code, signal) of a 'close' event
Exited(n)   == <<"code", n>>
Signalled   == <<"signal", "SIGTERM">>

Min(a, b) == IF a < b THEN a ELSE b

\* suites of a report: suite = [specs, suites], spec = [tests], test = [status]
\* where status is test.results?.[0]?.status || 'unknown'.
Leaf(s)      == [status |-> s]
SpecOf(ts)   == [tests |-> ts]
SuiteOf(sp, sub) == [specs |-> sp, suites |-> sub]

TreeMixed ==
    << SuiteOf(<< SpecOf(<<Leaf("passed"), Leaf("failed")>>) >>,
               << SuiteOf(<< SpecOf(<<Leaf("skipped")>>),
                             SpecOf(<<Leaf("expected"), Leaf("timedOut")>>) >>,
                          <<>>) >>) >>

\* Reports the runner can print (JSON reporter): with and without the
\* top-level summary counts.
TreeOne == << SuiteOf(<< SpecOf(<<Leaf("failed")>>) >>, <<>>) >>

ReportStats   == [stats  |-> [expected |-> 2, unexpected |-> 1, skipped |-> 1],
                  suites |-> TreeOne, errors |-> <<>>]

\* A text is described by what the code observes of it: its length, the
\* outcome of JSON.parse on the substring from the last "\n{" (nl) and from
\* the first "{" (first), NoJson when there is no such position.
Text(name, len, nl, first) == [s |-> name, len |-> len, nl |-> nl, first |-> first]

EmptyText     == Text("", 0, NoJson, NoJson)
LinesText     == Text("lines", 40, NoJson, NoJson)
StatsText     == Text("report+stats", 900, ReportStats, ReportStats)
ErrMessage    == Text("spawn npx ENOENT", 16, NoJson, NoJson)

\* what one stdout 'data' event can leave collected
ChunkTexts == {Text("partial", 600, Invalid, Invalid), StatsText}

\* mutant: the text is not cut
SubstringWhole(t, n) == [s |-> t.s, len |-> t.len]

Substring(t, n) == [s |-> t.s, len |-> Min(t.len, n)]

\* the statuses a leaf test can carry; 'unknown' stands for a test without
\* results
Statuses == {"passed", "expected", "failed", "unexpected", "skipped", "timedOut", "unknown"}

\* suite trees: empty, a leaf suite without the suites key, and a suite
\* whose second level holds a spec of two tests
SuiteTrees ==
    {<<>>, TreeOne, TreeMixed, << [specs |-> << SpecOf(<<Leaf("expected")>>) >>] >>}
    \cup {<< SuiteOf(<< SpecOf(<<Leaf(a)>>) >>,
                     << SuiteOf(<< SpecOf(<<Leaf(b), Leaf("passed")>>) >>, <<>>) >>),
             SuiteOf(<<>>, <<>>) >> : a, b \in Statuses}

\* the summary counts a report can carry
SummaryCounts ==
    {[expected |-> e, unexpected |-> u, skipped |-> k] : e, u, k \in 0 .. MaxCount}
    \cup {[expected |-> MaxCount]}

\* the texts a child can have printed when it closes: a report with or
\* without summary counts, and output from which no report can be parsed
ReportTexts ==
    {Text("report+stats", 2 * ErrPrefixLen, [stats |-> st, suites |-> tr, errors |-> <<>>],
          [stats |-> st, suites |-> tr, errors |-> <<>>]) :
        st \in SummaryCounts, tr \in {<<>>, TreeOne, TreeMixed}}
    \cup {Text("report", 2 * ErrPrefixLen, [stats |-> Undefined, suites |-> tr, errors |-> <<>>],
               [stats |-> Undefined, suites |-> tr, errors |-> <<>>]) : tr \in SuiteTrees}

UnparseableTexts ==
    {Text("lines", n, NoJson, NoJson) :
        n \in {1, ErrPrefixLen - 1, ErrPrefixLen, ErrPrefixLen + 1}}
    \cup {Text("partial", n, Invalid, Invalid) : n \in {ErrPrefixLen, ErrPrefixLen + 1}}
    \cup {Text("brace", ErrPrefixLen + 1, NoJson, Invalid),
          Text("report+partial", 2 * ErrPrefixLen, Invalid, ReportStats)}

---------------------------------------------------------------------------
(* Result summarizer *)

\* the catch block: a minimal report carrying a prefix of the raw output
FallbackReport(stdout) ==
    [stats  |-> Undefined,
     suites |-> <<>>,
     errors |-> << IF Substring(stdout, ErrPrefixLen).len = 0
                   THEN [s |-> "Failed to parse test output", len |-> 27]
                   ELSE Substring(stdout, ErrPrefixLen) >>]

\* try { lastIndexOf('\n{') ... else indexOf('{') ... } catch { fallback }
ParseOutput(stdout) ==
    IF stdout.nl # NoJson
    THEN IF stdout.nl = Invalid THEN FallbackReport(stdout) ELSE stdout.nl
    ELSE IF stdout.first # NoJson
         THEN IF stdout.first = Invalid THEN FallbackReport(stdout) ELSE stdout.first
         ELSE FallbackReport(stdout)

ZeroCount == [total |-> 0, passed |-> 0, failed |-> 0, skipped |-> 0]

\* x.field || dflt, for a field the report may lack
FieldOr(x, field, dflt) == IF field \in DOMAIN x THEN x[field] ELSE dflt

\* mutant: the runner's synonyms are not normalised
CountTestNoSynonyms(c, test) ==
    [total   |-> c.total + 1,
     passed  |-> c.passed  + (IF test.status = "passed" THEN 1 ELSE 0),
     failed  |-> c.failed  + (IF test.status = "failed" THEN 1 ELSE 0),
     skipped |-> c.skipped + (IF test.status = "skipped" THEN 1 ELSE 0)]

\* one iteration of the innermost loop of countResults
CountTest(c, test) ==
    [total   |-> c.total + 1,
     passed  |-> c.passed  + (IF test.status \in {"passed", "expected"} THEN 1 ELSE 0),
     failed  |-> c.failed  + (IF test.status \in {"failed", "unexpected"} THEN 1 ELSE 0),
     skipped |-> c.skipped + (IF test.status = "skipped" THEN 1 ELSE 0)]

RECURSIVE CountTests(_, _)
CountTests(c, tests) ==
    IF tests = <<>> THEN c ELSE CountTests(CountTest(c, Head(tests)), Tail(tests))

RECURSIVE CountSpecs(_, _)
CountSpecs(c, specs) ==
    IF specs = <<>> THEN c
    ELSE CountSpecs(CountTests(c, FieldOr(Head(specs), "tests", <<>>)), Tail(specs))

\* countResults(suites): specs of the suite first, then its nested suites
RECURSIVE countResults(_, _)
countResults(c, suites) ==
    IF suites = <<>> THEN c
    ELSE countResults(
             countResults(CountSpecs(c, FieldOr(Head(suites), "specs", <<>>)),
                          FieldOr(Head(suites), "suites", <<>>)),
             Tail(suites))

\* mutant: the summary counts of the report are not used
ComputeStatsCounted(results, duration) ==
    LET c == countResults(ZeroCount, results.suites)
    IN  [total |-> c.total, passed |-> c.passed, failed |-> c.failed,
         skipped |-> c.skipped, duration |-> duration]

\* the stats of the run record: the summary counts of the report when
\* results.stats.expected is a number, the counted leaves otherwise
ComputeStats(results, duration) ==
    IF results.stats # Undefined /\ "expected" \in DOMAIN results.stats
    THEN [total    |-> FieldOr(results.stats, "expected", 0)
                       + FieldOr(results.stats, "unexpected", 0)
                       + FieldOr(results.stats, "skipped", 0),
          passed   |-> FieldOr(results.stats, "expected", 0),
          failed   |-> FieldOr(results.stats, "unexpected", 0),
          skipped  |-> FieldOr(results.stats, "skipped", 0),
          duration |-> duration]
    ELSE LET c == countResults(ZeroCount, results.suites)
         IN  [total |-> c.total, passed |-> c.passed, failed |-> c.failed,
              skipped |-> c.skipped, duration |-> duration]

---------------------------------------------------------------------------
(* Run records *)

toISOString(t) == <<"iso", t>>

\* `by` is not a property of the JavaScript object: it stands for the
\* object's identity, i.e. which invocation created the record.
RunRecord(now, stats, grep, exitCode, results, by) ==
    [id        |-> ToString(now),
     timestamp |-> toISOString(now),
     stats     |-> stats,
     grep      |-> grep,
     exitCode  |-> exitCode,
     suites    |-> results.suites,
     errors    |-> results.errors,
     by        |-> by]

\* the body of a CI upload: stats as posted, `||` defaults applied by the
\* handler
UploadBodies ==
    { [stats |-> [total |-> 3, passed |-> 2, failed |-> 1, skipped |-> 0, duration |-> 7],
       source |-> Missing] }

UploadRecord(now, body, by) ==
    [id        |-> ToString(now),
     timestamp |-> toISOString(now),
     stats     |-> body.stats,
     source    |-> IF body.source = Missing THEN "ci-upload" ELSE body.source,
     exitCode  |-> IF body.stats.failed > 0 THEN 1 ELSE 0,
     suites    |-> <<>>,
     errors    |-> <<>>,
     by        |-> by]

\* a record left in the log by an earlier life of the server
OldRecord(i) ==
    RunRecord(i, [total |-> 0, passed |-> 0, failed |-> 0, skipped |-> 0, duration |-> 0],
              NullGrep, 0, [suites |-> <<>>, errors |-> <<>>], <<"old", i>>)

---------------------------------------------------------------------------
(* JSON text of the history file *)

\* JSON.stringify of one value: a number, a string or null becomes a token,
\* arrays and nested objects are kept as one value token

DecodeValue(tok) ==
    IF tok[1] = "null" THEN Null ELSE tok[2]

EncodeRecord(run) ==
    [f \in DOMAIN run |->
        IF f = "stats" THEN [g \in DOMAIN run.stats |-> <<"number", run.stats[g]>>]
        ELSE IF f = "exitCode" THEN <<"number", run[f]>>
        ELSE IF f = "grep"
             THEN (IF run[f] = NullGrep THEN <<"null">> ELSE <<"string", run[f]>>)
        ELSE IF f \in {"id", "source"} 
             THEN (IF run[f] = Null THEN <<"null">> ELSE <<"string", run[f]>>)
        ELSE <<"value", run[f]>>]

DecodeRecord(obj) ==
    [f \in DOMAIN obj |->
        IF f = "stats" THEN [g \in DOMAIN obj.stats |-> DecodeValue(obj.stats[g])]
        ELSE IF f = "grep" THEN (IF obj[f][1] = "null" THEN NullGrep ELSE obj[f][2])
        ELSE DecodeValue(obj[f])]

\* JSON.stringify(existingData, null, 2)
JSONStringify(data) ==
    [json |-> [runs    |-> [i \in DOMAIN data.runs |-> EncodeRecord(data.runs[i])],
               lastRun |-> EncodeRecord(data.lastRun)]]

\* JSON.parse(data) of a well-formed file
JSONParse(file) ==
    [runs    |-> [i \in DOMAIN file.json.runs |-> DecodeRecord(file.json.runs[i])],
     lastRun |-> DecodeRecord(file.json.lastRun)]

IsLog(file) == file # Absent /\ file # Corrupt

\* readProjectResults(projectId): throws when the file is missing or is not
\* JSON
readProjectResults(file) == JSONParse(file)

\* "Load existing results": { runs: [] } when the read or the parse throws
LoadExisting(file) ==
    IF IsLog(file) THEN JSONParse(file) ELSE [runs |-> <<>>, lastRun |-> Undefined]

\* mutant: the list is not truncated
SliceKeepsAll(list, n) == list

\* runs.slice(0, 20)
Slice(list, n) == SubSeq(list, 1, Min(Len(list), n))

\* mutant: push instead of unshift
AppendRunAtEnd(existingData, run) ==
    [runs    |-> SubSeq(existingData.runs \o <<run>>, 1,
                        Min(Len(existingData.runs) + 1, HistoryCap)),
     lastRun |-> run]

\* mutant: lastRun is left as it was in the file
AppendRunStaleLastRun(existingData, run) ==
    [runs    |-> SubSeq(<<run>> \o existingData.runs, 1,
                        Min(Len(existingData.runs) + 1, HistoryCap)),
     lastRun |-> IF existingData.runs = <<>> THEN run ELSE existingData.runs[1]]

\* unshift(run); slice(0, 20); lastRun = run
AppendRun(existingData, run) ==
    [runs    |-> Slice(<<run>> \o existingData.runs, HistoryCap),
     lastRun |-> run]

\* mutant: the rejection comes after the data reached the file
FailedWriteLeavesData(old, data) == {data}

\* what a rejected fs.writeFile can leave behind: the old file, or a file
\* that was truncated and not written to the end
FailedWrite(old, data) == {old, Corrupt}

---------------------------------------------------------------------------
(* The process-runner promise *)

\* mutant: a later resolve replaces the value
ResolveOverwrites(cur, value) == value

\* resolve(value) of a promise: settles it only while it is pending
Resolve(cur, value) == IF cur = Pending THEN value ELSE cur

\* mutant: the output of a child ended by a signal is discarded
CloseResultDropsOutput(stdout, code) ==
    [stdout   |-> IF code[1] = "signal" THEN EmptyText ELSE stdout,
     exitCode |-> IF code[1] = "signal" THEN 0 ELSE code[2]]

\* child.on('close', code => resolve({ stdout, exitCode: code || 0 }))
CloseResult(stdout, code) ==
    [stdout |-> stdout, exitCode |-> IF code[1] = "signal" THEN 0 ELSE code[2]]

\* mutant: the launch failure is reported as a clean exit
ErrorResultExitZero(err) == [stdout |-> err, exitCode |-> 0]

\* child.on('error', err => resolve({ stdout: err.message, exitCode: 1 }))
ErrorResult(err) == [stdout |-> err, exitCode |-> 1]

\* the exit codes 'close' can report: null when the child was ended by the
\* signal of the spawn timeout, a number when it exited by itself (also from
\* a handler of that signal)
CloseCodes(killed) ==
    IF killed THEN {Signalled, Exited(1)} ELSE {Exited(0), Exited(1)}

---------------------------------------------------------------------------
(* Request validation *)

\* /^[a-zA-Z0-9_-]+$/.test(projectId)
isValidProjectId(p) == p \notin InvalidIds

\* projects[projectId] on the object discoverProjects returns: an own key
\* gives the project, an inherited key a value without canRunFromUI
Lookup(p) ==
    IF p \in Discovered THEN [id |-> p, canRunFromUI |-> CanRunFromUI(p)]
    ELSE IF p \in InheritedKeys THEN [inherited |-> TRUE]
    ELSE Undefined

\* The characters /[^a-zA-Z0-9\s@_-]/ does not match, among those the grep
\* values are made of: letters, a digit, a blank and the tag characters.
AllowedChars == {"a", "Z", "7", " ", "@", "_", "-"}

\* the grep values of a request, a string being the sequence of its
\* characters: every string of at most MaxGrepLen characters, some allowed
\* and some not, and strings about the length limit
GrepInputs ==
    UNION {[1 .. n -> {"a", "7", " ", "@", "-", ";", "$"}] : n \in 0 .. MaxGrepLen}
    \cup {[i \in 1 .. n |-> "a"] : n \in {GrepMax, GrepMax + 1}}
    \cup {[i \in 1 .. GrepMax |-> "a"] \o <<";">>,
          <<"$">> \o [i \in 1 .. GrepMax + 1 |-> "-"],
          [i \in 1 .. GrepMax + 1 |-> ";"]}

\* mutant: nothing is stripped
sanitizeGrepKeepsAll(grep) ==
    IF grep = NoGrep \/ grep = <<>> THEN NullGrep
    ELSE IF Len(grep) <= GrepMax THEN grep ELSE NullGrep

\* sanitizeGrep(grep) of an absent or string grep
sanitizeGrep(grep) ==
    IF grep = NoGrep \/ grep = <<>> THEN NullGrep
    ELSE LET sanitized == SelectSeq(grep, LAMBDA c : c \in AllowedChars)
         IN  IF Len(sanitized) > 0 /\ Len(sanitized) <= GrepMax
             THEN sanitized ELSE NullGrep

\* args of the test process: if (grep) args.push('--grep', grep)
SpawnArgs(grep) ==
    <<"playwright", "test", "--reporter=line,json">>
    \o (IF grep # NullGrep THEN <<"--grep", grep>> ELSE <<>>)

validateAndGetProject(p) ==
    IF ~isValidProjectId(p) THEN [error |-> "Invalid project ID", status |-> 400]
    ELSE IF Lookup(p) = Undefined THEN [error |-> "Project not found", status |-> 404]
    ELSE [project |-> Lookup(p)]

---------------------------------------------------------------------------
(* Progress parser *)

\* A line of the line reporter, after the ANSI codes are stripped, described
\* by what the regular expressions of the handler find in it:
\*   failure  /^\s*(\d+)\)\s+\[/         <<n>> or <<>>
\*   count    /(\d+)\s+skipped/i         <<n>> or <<>>
\*   marker   /\[(\d+)\/(\d+)\]/         <<current, total>> or <<>> (first match)
\*   dash     /\[\d+\/\d+\]\s*-\s+\[/ or /^\s*-\s+\[.*\]\s+›/
\*   word     the lower-cased line includes 'skipped'
Line(failure, count, marker, dash, word) ==
    [failure |-> failure, count |-> count, marker |-> marker,
     dash |-> dash, word |-> word]

FailureLine(n)      == Line(<<n>>, <<>>, <<>>, FALSE, FALSE)   \* "  n) [chromium] ..."
ProgressLine(k)     == Line(<<>>, <<>>, <<k, MaxOrdinal>>, FALSE, FALSE) \* "[k/T] [chromium] ..."
SkipMarkerLine(k)   == Line(<<>>, <<>>, <<k, MaxOrdinal>>, TRUE, FALSE)  \* "[k/T] -  [chromium] ..."
PlainLine           == Line(<<>>, <<>>, <<>>, FALSE, FALSE)

\* the lines a child can print
ReporterLines ==
    {FailureLine(n) : n \in 1 .. MaxOrdinal}
    \cup {Line(<<>>, <<n>>, <<>>, FALSE, TRUE) : n \in 1 .. MaxOrdinal}          \* "  n skipped"
    \cup {ProgressLine(k) : k \in 1 .. MaxOrdinal} \cup {SkipMarkerLine(k) : k \in 1 .. MaxOrdinal}
    \cup {Line(<<>>, <<MaxOrdinal>>, <<k, MaxOrdinal>>, FALSE, TRUE) : k \in 1 .. MaxOrdinal}
                                                         \* "[k/T] ... T skipped"
    \cup {Line(<<>>, <<>>, <<1, 0>>, FALSE, FALSE)}       \* "[1/0] ..."
    \cup {Line(<<>>, <<>>, <<>>, TRUE, FALSE), PlainLine} \* "  -  [chromium] › ..."

\* const progress = { passed: 0, failed: 0, skipped: 0, completed: 0 }
ZeroProgress == [passed |-> 0, failed |-> 0, skipped |-> 0, completed |-> 0]

\* progress.passed = progress.completed - progress.failed - progress.skipped
Recalculate(progress) ==
    [progress EXCEPT !.passed = progress.completed - progress.failed - progress.skipped]

\* broadcast('tests:progress', { projectId, ...progress, expectedTotal }): the
\* counters are in emitted, the expectedTotal of the same payload in totals
Emit(st, total) ==
    [st EXCEPT !.emitted = Append(@, st.progress), !.totals = Append(@, total)]

\* mutant: passed is not recalculated when failed changes
OnFailureStalePassed(st, line) ==
    IF line.failure # <<>> /\ line.failure[1] > st.progress.failed
    THEN Emit([st EXCEPT !.progress.failed = line.failure[1]], st.expectedTotal)
    ELSE st

\* "  1) [chromium]": the failure number is adopted when it is larger
OnFailure(st, line) ==
    IF line.failure # <<>> /\ line.failure[1] > st.progress.failed
    THEN Emit([st EXCEPT !.progress = Recalculate([@ EXCEPT !.failed = line.failure[1]])],
              st.expectedTotal)
    ELSE st

\* "X skipped": the count is adopted when it is larger
OnSkippedCount(st, line) ==
    IF line.count # <<>> /\ line.count[1] > st.progress.skipped
    THEN Emit([st EXCEPT !.progress = Recalculate([@ EXCEPT !.skipped = line.count[1]])],
              st.expectedTotal)
    ELSE st

\* isSkipLine && skipProgressMatch
IsSkipLine(line) == line.marker # <<>> /\ (line.dash \/ line.word)

\* mutant: the set of the test numbers seen is not consulted
OnSkipMarkerCountsAgain(st, line) ==
    IF IsSkipLine(line)
    THEN Emit([st EXCEPT !.seen = @ \cup {line.marker[1]},
                         !.progress = Recalculate([@ EXCEPT !.skipped = @ + 1])],
              st.expectedTotal)
    ELSE st

\* an individual skipped test: skipped becomes the size of the set of the
\* test numbers seen
OnSkipMarker(st, line) ==
    IF IsSkipLine(line) /\ line.marker[1] \notin st.seen
    THEN LET seen == st.seen \cup {line.marker[1]}
         IN  Emit([st EXCEPT !.seen = seen,
                             !.progress = Recalculate([@ EXCEPT !.skipped = Cardinality(seen)])],
                  st.expectedTotal)
    ELSE st

\* mutant: current is adopted whenever it differs from completed
OnProgressAdoptsAny(st, line) ==
    IF line.marker # <<>> /\ line.marker[1] # st.progress.completed
    THEN Emit([st EXCEPT !.progress = Recalculate([@ EXCEPT !.completed = line.marker[1]])],
              IF line.marker[2] # 0 THEN line.marker[2] ELSE st.expectedTotal)
    ELSE st

\* "[1/38] ...": completed is adopted when current is larger, and the
\* payload carries total || expectedTotal
OnProgress(st, line) ==
    IF line.marker # <<>> /\ line.marker[1] > st.progress.completed
    THEN Emit([st EXCEPT !.progress = Recalculate([@ EXCEPT !.completed = line.marker[1]])],
              IF line.marker[2] # 0 THEN line.marker[2] ELSE st.expectedTotal)
    ELSE st

\* the body of `for (const line of lines)`
ParseLine(st, line) ==
    OnProgress(OnSkipMarker(OnSkippedCount(OnFailure(st, line), line), line), line)

RECURSIVE ParseLines(_, _)
ParseLines(st, ls) ==
    IF ls = <<>> THEN st ELSE ParseLines(ParseLine(st, Head(ls)), Tail(ls))

\* The decoded text of a chunk is a sequence of pieces: "\n", the text of a
\* whole line, or one of the two fragments of a line that the chunk boundary
\* cut inside its indicator (the failure number, the marker).
Piece(kind, line) == [piece |-> kind, of |-> line]

\* the chunk that holds the complete lines ls, each followed by "\n"
RECURSIVE Aligned(_)
Aligned(ls) ==
    IF ls = <<>> THEN <<>>
    ELSE <<Piece("line", Head(ls)), Piece("nl", PlainLine)>> \o Aligned(Tail(ls))

\* text.split('\n'): the segments between the newlines, the last one being
\* the text after the last newline
RECURSIVE Split(_)
Split(text) ==
    IF \A i \in DOMAIN text : text[i].piece # "nl" THEN <<text>>
    ELSE LET i == CHOOSE j \in DOMAIN text :
                      text[j].piece = "nl" /\ \A k \in 1 .. j - 1 : text[k].piece # "nl"
         IN  <<SubSeq(text, 1, i - 1)>> \o Split(SubSeq(text, i + 1, Len(text)))

\* what the expressions find in a line of the buffer: the description of
\* the line when its text is whole, or put together from its two fragments;
\* nothing in an empty line, and nothing in a fragment on its own, in which
\* the indicator is incomplete
cleanLine(segment) ==
    IF Len(segment) = 1 /\ segment[1].piece = "line" THEN segment[1].of
    ELSE IF /\ Len(segment) = 2
            /\ segment[1].piece = "head" /\ segment[2].piece = "tail"
            /\ segment[1].of = segment[2].of
         THEN segment[1].of
         ELSE PlainLine

\* mutant: the incomplete last line is parsed with the chunk and not kept
FeedParsesLastSegment(st, chunk) ==
    LET segments == Split(st.buffer \o chunk)
        lines    == [i \in DOMAIN segments |-> cleanLine(segments[i])]
    IN  [ParseLines(st, lines) EXCEPT !.buffer = <<>>, !.lines = lines]

\* the body of child.stdout.on('data'), after stdout += chunk:
\* stdoutBuffer += chunk; lines = stdoutBuffer.split('\n');
\* stdoutBuffer = lines.pop(); for (const line of lines) ...
Feed(st, chunk) ==
    LET segments == Split(st.buffer \o chunk)
        lines    == [i \in 1 .. Len(segments) - 1 |-> cleanLine(segments[i])]
    IN  [ParseLines(st, lines) EXCEPT !.buffer = segments[Len(segments)], !.lines = lines]

\* stdout += chunk, on the description of the texts: lines carry no '{', so
\* the parse of the whole is the parse of the chunk that follows them
Concat(stdout, chunk) ==
    IF stdout = EmptyText THEN chunk
    ELSE Text(chunk.s, stdout.len + chunk.len, chunk.nl, chunk.first)

---------------------------------------------------------------------------
(* Broadcaster *)

ClientIds == 1 .. MaxClients

\* a WebSocket that has not connected yet
NoClient  == [connected |-> FALSE, readyState |-> "NONE"]

\* JSON.stringify({ event, data, timestamp: new Date().toISOString() })
Message(event, data, now) ==
    [event |-> event, data |-> data, timestamp |-> toISOString(now)]

\* mutant: the readyState of the client is not looked at
broadcastToAll(w, cl, msgs) ==
    [calls |-> w.calls + Len(msgs),
     inbox |-> [c \in DOMAIN cl |->
                  IF cl[c].connected /\ msgs # <<>>
                  THEN [received |-> w.inbox[c].received + Len(msgs),
                        last     |-> msgs[Len(msgs)]]
                  ELSE w.inbox[c]]]

\* broadcast(event, data), called once for each of msgs in one turn: every
\* client of the set whose readyState is OPEN is sent the message
broadcast(w, cl, msgs) ==
    [calls |-> w.calls + Len(msgs),
     inbox |-> [c \in DOMAIN cl |->
                  IF cl[c].connected /\ cl[c].readyState = "OPEN" /\ msgs # <<>>
                  THEN [received |-> w.inbox[c].received + Len(msgs),
                        last     |-> msgs[Len(msgs)]]
                  ELSE w.inbox[c]]]

---------------------------------------------------------------------------
(* State *)

IdleRun ==
    [pc |-> "idle", project |-> Null, trigger |-> Null, grep |-> NullGrep, args |-> <<>>,
     reqGrep |-> NoGrep,
     startTime |-> 0, child |-> "none", killed |-> FALSE, closeCode |-> NoEvent,
     errorFired |-> FALSE, stdout |-> EmptyText, result |-> Pending,
     rec |-> Undefined, existing |-> Undefined, writeFailed |-> FALSE, raced |-> FALSE,
     started |-> 0, completed |-> 0, errored |-> 0,
     chunks |-> 0, lines |-> <<>>, progress |-> ZeroProgress, seenSkippedTests |-> {},
     emitted |-> <<>>, progressSent |-> 0,
     listing |-> [event |-> "none", stdout |-> EmptyText], expectedTotal |-> 0,
     stdoutBuffer |-> <<>>, chunk |-> <<>>, totals |-> <<>>]

IdleUpload ==
    [pc |-> "idle", project |-> Null, rec |-> Undefined, existing |-> Undefined,
     writeFailed |-> FALSE, raced |-> FALSE, uploaded |-> 0]

\* A request of the manual-test API: the handler's position and the locals
\* it holds across its awaits. A session is named by the request that
\* created it, an item by its serial id.
IdleRequest ==
    [kind |-> "none", pc |-> "idle", session |-> 0, id |-> 0, status |-> "pending",
     old |-> "pending", custom |-> FALSE, newIndex |-> 0, left |-> 0]

RequestSlots == 1 .. MaxRequests

\* no row of manual_test_sessions
NoSession ==
    [exists |-> FALSE, total_items |-> 0, passed_items |-> 0, failed_items |-> 0,
     skipped_items |-> 0]

RunSlots    == 1 .. MaxRuns

Init ==
    /\ clock = (HistoryCap + 1)
    \* the history file of project "alpha" when the server starts: none, or
    \* the log an earlier life of the server left, HistoryCap records, newest
    \* first
    /\ \E old \in {Absent,
                    JSONStringify([runs    |-> [i \in 1 .. HistoryCap |->
                                                  OldRecord(HistoryCap + 1 - i)],
                                   lastRun |-> OldRecord(HistoryCap)])} :
           files = [p \in Discovered |-> IF p = "alpha" THEN old ELSE Absent]
    /\ runs = [r \in RunSlots |-> IdleRun]
    /\ batch = [pc |-> "idle", queue |-> <<>>, cur |-> 0]
    /\ uploads = [u \in (1 .. MaxUploads) |-> IdleUpload]
    /\ clients = [c \in ClientIds |-> NoClient]
    /\ wire = [calls |-> 0,
               inbox |-> [c \in ClientIds |-> [received |-> 0, last |-> [none |-> TRUE]]]]
    /\ replies = {}
    /\ manual = [sessions |-> [s \in RequestSlots |-> NoSession], items |-> {},
                 nextId |-> 1, reqs |-> [q \in RequestSlots |-> IdleRequest]]

FreeRunSlots == {r \in RunSlots : runs[r].pc = "idle"}
NextRunSlot  == CHOOSE r \in FreeRunSlots : \A q \in FreeRunSlots : r <= q

\* mutant: the test process is spawned without waiting for the listing and
\* without tests:started
CallRunSpawnsAtOnce(r, p, trigger) ==
    [runs EXCEPT ![r] = [IdleRun EXCEPT !.pc = "running", !.child = "alive", !.project = p,
                                        !.trigger = trigger, !.startTime = clock]]

\* mutant: the counters and the set of the skipped tests are not created by
\* the call: it goes on with those of the invocation before it
CallRunSharesProgress(r, p, trigger) ==
    LET others == {q \in RunSlots : runs[q].pc # "idle"}
        other  == IF others = {} THEN r ELSE CHOOSE q \in others : TRUE
    IN  [runs EXCEPT ![r] = [IdleRun EXCEPT !.pc = "listing", !.project = p,
                                            !.trigger = trigger, !.startTime = clock,
                                            !.progress = runs[other].progress,
                                            !.seenSkippedTests = runs[other].seenSkippedTests]]

\* the call runTestsForProject(projectId, config, grep): ensureResultsDir,
\* startTime, and the dry listing is spawned
CallRun(r, p, trigger) ==
    [runs EXCEPT ![r] = [IdleRun EXCEPT !.pc = "listing", !.project = p,
                                        !.trigger = trigger, !.startTime = clock]]

\* The continuation of `await new Promise(...)`, which runs in the turn of the
\* event that settled the promise: parse the output, derive the stats, create
\* the run record, start reading the history file.
Summarise(run, r, now) ==
    LET results == ParseOutput(run.result.stdout)
        stats   == ComputeStats(results, now - run.startTime)
    IN  [run EXCEPT !.pc = "reading",
                    !.rec = RunRecord(now, stats, run.grep, run.result.exitCode,
                                      results, <<"run", r>>)]

\* an event handler called resolve(value): the promise is settled if it was
\* pending, and only then is the continuation run
OnResolve(run, r, value, now) ==
    LET settled == [run EXCEPT !.result = Resolve(run.result, value)]
    IN  IF run.result = Pending THEN Summarise(settled, r, now) ELSE settled

\* the handlers that are waiting for fs.writeFile on the file of project p,
\* as [rec, existing]
Writers(p) ==
    {[rec |-> runs[r].rec, existing |-> runs[r].existing] :
        r \in {q \in RunSlots : runs[q].pc = "writing" /\ runs[q].project = p}}
    \cup
    {[rec |-> uploads[u].rec, existing |-> uploads[u].existing] :
        u \in {v \in (1 .. MaxUploads) : uploads[v].pc = "writing" /\ uploads[v].project = p}}

\* the invocations in hs that are waiting for fs.writeFile on the file of
\* project p have had another fs.writeFile on that file running meanwhile
MarkRaced(hs, p) ==
    [h \in DOMAIN hs |->
        IF hs[h].pc = "writing" /\ hs[h].project = p
        THEN [hs[h] EXCEPT !.raced = TRUE] ELSE hs[h]]

\* What the file of project p holds when an fs.writeFile(data) on it is
\* fulfilled. Nothing orders two calls on one file: each opens the file
\* with truncation and writes from offset 0, so while another call runs, or
\* after one ran meanwhile, the file holds the data of either call or bytes
\* of both, which is not JSON.
Written(p, data, raced) ==
    LET others == {JSONStringify(AppendRun(w.existing, w.rec)) : w \in Writers(p)} \ {data}
    IN  {data} \cup (IF raced THEN {files[p], Corrupt} ELSE {})
               \cup (IF others # {} THEN others \cup {Corrupt} ELSE {})

\* the locals of an invocation that returned or threw
Finished(run) ==
    [run EXCEPT !.pc = "done", !.child = "none", !.closeCode = NoEvent,
                !.errorFired = FALSE, !.stdout = EmptyText, !.rec = Undefined,
                !.existing = Undefined, !.stdoutBuffer = <<>>]

---------------------------------------------------------------------------
(* Manual-test sessions (src/api/projects.js) *)

\* Each pool.query is one step: the statement runs on the database by
\* itself, and the statements of other requests run between two statements
\* of one handler. No handler opens a transaction.

\* one assignment of counterUpdates applied to the row of the session:
\* '<status>_items = <status>_items + d', nothing for 'pending'
Adjust(row, status, d) ==
    CASE status = "passed"  -> [row EXCEPT !.passed_items = @ + d]
      [] status = "failed"  -> [row EXCEPT !.failed_items = @ + d]
      [] status = "skipped" -> [row EXCEPT !.skipped_items = @ + d]
      [] OTHER              -> row

\* POST /sessions for a project with a checklist of MaxChecklist items
CreateSession(q) ==
    LET req == manual.reqs[q]
    IN  /\ \/ \* INSERT INTO manual_test_sessions (..., total_items, ...)
              /\ req.pc = "idle"
              /\ \A k \in 1 .. q - 1 : manual.reqs[k].pc # "idle"
              /\ Cardinality({s \in RequestSlots : manual.sessions[s].exists}) < MaxSessions
              /\ manual' = [manual EXCEPT
                     !.sessions[q] = [NoSession EXCEPT !.exists = TRUE,
                                                       !.total_items = MaxChecklist],
                     !.reqs[q] = [IdleRequest EXCEPT !.kind = "create", !.pc = "inserting",
                                                     !.session = q, !.left = MaxChecklist]]
           \/ \* INSERT INTO manual_test_items (...) for the next item of the
              \* checklist; after the last one the response is sent
              /\ req.kind = "create" /\ req.pc = "inserting"
              /\ manual' = [manual EXCEPT
                     !.items = @ \cup {[id |-> manual.nextId, session_id |-> req.session,
                                        item_index |-> MaxChecklist - req.left,
                                        status |-> "pending", is_custom |-> FALSE]},
                     !.nextId = @ + 1,
                     !.reqs[q].left = @ - 1,
                     !.reqs[q].pc = IF req.left = 1 THEN "done" ELSE "inserting"]
        /\ UNCHANGED <<clock, files, runs, batch, uploads, clients, wire, replies>>

\* PATCH /items/:itemId with a valid status (and an error description when
\* the status is 'failed')
PatchItem(q) ==
    LET req == manual.reqs[q]
    IN  /\ \/ \* SELECT session_id, status as old_status ... WHERE id = $1
              /\ req.pc = "idle"
              /\ \A k \in 1 .. q - 1 : manual.reqs[k].pc # "idle"
              /\ \E id \in 1 .. manual.nextId,
                    status \in {"pending", "passed", "failed", "skipped"} :
                     LET found == {i \in manual.items : i.id = id}
                         row   == CHOOSE i \in found : TRUE
                     IN  manual' = [manual EXCEPT !.reqs[q] =
                             IF found = {}
                             THEN [IdleRequest EXCEPT !.kind = "patch", !.pc = "done", !.id = id]
                             ELSE [IdleRequest EXCEPT !.kind = "patch", !.pc = "update",
                                                      !.id = id, !.status = status,
                                                      !.old = row.status,
                                                      !.session = row.session_id]]
           \/ \* UPDATE manual_test_items SET status = $1, ... WHERE id = $3
              /\ req.kind = "patch" /\ req.pc = "update"
              /\ manual' = [manual EXCEPT
                     !.items = {IF i.id = req.id THEN [i EXCEPT !.status = req.status] ELSE i :
                                   i \in manual.items},
                     !.reqs[q].pc = IF req.old = "pending" /\ req.status = "pending"
                                    THEN "done" ELSE "counters"]
           \/ \* UPDATE manual_test_sessions SET <counterUpdates>; when the old
              \* and the new status are the same counter the statement assigns
              \* one column twice, which the database rejects
              /\ req.kind = "patch" /\ req.pc = "counters"
              /\ manual' = [manual EXCEPT
                     !.sessions[req.session] =
                         IF req.old = req.status THEN @
                         ELSE Adjust(Adjust(@, req.old, 0 - 1), req.status, 1),
                     !.reqs[q].pc = "done"]
        /\ UNCHANGED <<clock, files, runs, batch, uploads, clients, wire, replies>>

\* DELETE /items/:itemId: a custom item is deleted, a checklist item is
\* marked skipped
DeleteItem(q) ==
    LET req == manual.reqs[q]
    IN  /\ \/ \* SELECT session_id, status, is_custom ... WHERE id = $1
              /\ req.pc = "idle"
              /\ \A k \in 1 .. q - 1 : manual.reqs[k].pc # "idle"
              /\ \E id \in 1 .. manual.nextId :
                     LET found == {i \in manual.items : i.id = id}
                         row   == CHOOSE i \in found : TRUE
                     IN  manual' = [manual EXCEPT !.reqs[q] =
                             IF found = {}
                             THEN [IdleRequest EXCEPT !.kind = "delete", !.pc = "done", !.id = id]
                             ELSE [IdleRequest EXCEPT !.kind = "delete", !.pc = "remove",
                                                      !.id = id, !.old = row.status,
                                                      !.custom = row.is_custom,
                                                      !.session = row.session_id]]
           \/ \* DELETE FROM manual_test_items WHERE id = $1, or
              \* UPDATE manual_test_items SET status = 'skipped' ... WHERE id = $1
              /\ req.kind = "delete" /\ req.pc = "remove"
              /\ manual' = [manual EXCEPT
                     !.items = IF req.custom
                               THEN {i \in manual.items : i.id # req.id}
                               ELSE {IF i.id = req.id THEN [i EXCEPT !.status = "skipped"] ELSE i :
                                        i \in manual.items},
                     !.reqs[q].pc = IF ~req.custom /\ req.old = "skipped"
                                    THEN "done" ELSE "counters"]
           \/ \* UPDATE manual_test_sessions SET <counterUpdates>
              /\ req.kind = "delete" /\ req.pc = "counters"
              /\ manual' = [manual EXCEPT
                     !.sessions[req.session] =
                         IF req.custom
                         THEN Adjust([@ EXCEPT !.total_items = @ - 1], req.old, 0 - 1)
                         ELSE Adjust(Adjust(@, "skipped", 1),
                                     IF req.old = "skipped" THEN "pending" ELSE req.old, 0 - 1),
                     !.reqs[q].pc = "done"]
        /\ UNCHANGED <<clock, files, runs, batch, uploads, clients, wire, replies>>

\* POST /sessions/:sessionId/items with a title
AddItem(q) ==
    LET req == manual.reqs[q]
        own == {i \in manual.items : i.session_id = req.session}
    IN  /\ \/ \* SELECT 1 FROM manual_test_sessions WHERE session_id = $1
              /\ req.pc = "idle"
              /\ \A k \in 1 .. q - 1 : manual.reqs[k].pc # "idle"
              /\ \E s \in RequestSlots :
                     manual' = [manual EXCEPT !.reqs[q] =
                         [IdleRequest EXCEPT !.kind = "add", !.session = s,
                                             !.pc = IF manual.sessions[s].exists
                                                    THEN "max" ELSE "done"]]
           \/ \* SELECT COALESCE(MAX(item_index), -1) ... ; newIndex = max_index + 1
              /\ req.kind = "add" /\ req.pc = "max"
              /\ manual' = [manual EXCEPT
                     !.reqs[q].newIndex =
                         IF own = {} THEN 0
                         ELSE 1 + (CHOOSE n \in {i.item_index : i \in own} :
                                      \A i \in own : i.item_index <= n),
                     !.reqs[q].pc = "insert"]
           \/ \* INSERT INTO manual_test_items (...) VALUES (..., 'pending', true)
              /\ req.kind = "add" /\ req.pc = "insert"
              /\ manual' = [manual EXCEPT
                     !.items = @ \cup {[id |-> manual.nextId, session_id |-> req.session,
                                        item_index |-> req.newIndex,
                                        status |-> "pending", is_custom |-> TRUE]},
                     !.nextId = @ + 1,
                     !.reqs[q].pc = "count"]
           \/ \* UPDATE manual_test_sessions SET total_items = total_items + 1
              /\ req.kind = "add" /\ req.pc = "count"
              /\ manual' = [manual EXCEPT !.sessions[req.session].total_items = @ + 1,
                                          !.reqs[q].pc = "done"]
        /\ UNCHANGED <<clock, files, runs, batch, uploads, clients, wire, replies>>

---------------------------------------------------------------------------
(* Actions *)

Tick ==
    /\ clock < (HistoryCap + 1) + MaxTicks
    /\ clock' = clock + 1
    /\ UNCHANGED <<manual, files, runs, batch, uploads, clients, wire, replies>>

Reply(endpoint, p, status) == [endpoint |-> endpoint, projectId |-> p, status |-> status]

\* mutant: the request is not answered before the run
AcknowledgeNever(rs, p) == rs

\* res.json({ message: 'Tests started', projectId })
Acknowledge(rs, p) ==
    rs \cup {[endpoint |-> "run", projectId |-> p, status |-> 200,
              message |-> "Tests started"]}

\* POST /api/run/:projectId: answer 400 or 404 when the id is refused, 400
\* when the project is not run from the UI; otherwise sanitize grep,
\* acknowledge and start the run in the background
PostRun(p, grep) ==
    /\ LET validation == validateAndGetProject(p)
       IN  IF "error" \in DOMAIN validation
           THEN /\ replies' = replies \cup {Reply("run", p, validation.status)}
                /\ UNCHANGED <<manual, runs>>
           ELSE IF ~FieldOr(validation.project, "canRunFromUI", FALSE)
           THEN /\ replies' = replies \cup {Reply("run", p, 400)}
                /\ UNCHANGED <<manual, runs>>
           ELSE /\ FreeRunSlots # {}
                /\ replies' = Acknowledge(replies, p)
                /\ runs' = [CallRun(NextRunSlot, p, "single") EXCEPT
                               ![NextRunSlot].reqGrep = grep,
                               ![NextRunSlot].grep = sanitizeGrep(grep)]
    /\ UNCHANGED <<manual, clock, files, batch, uploads, clients, wire>>

\* the same for a request whose body carries no grep
RunSingle(p) == PostRun(p, NoGrep)

\* mutant: the default of the append, which has no lastRun, is answered
ResultsOrDefaultNoLastRun(file) ==
    IF IsLog(file) THEN readProjectResults(file) ELSE [runs |-> <<>>, lastRun |-> Undefined]

\* try { data = await readProjectResults(projectId) } catch { runs: [],
\* lastRun: null }: the file is missing or is not JSON
ResultsOrDefault(file) ==
    IF IsLog(file) THEN readProjectResults(file) ELSE [runs |-> <<>>, lastRun |-> NullObject]

\* GET /api/results/:projectId and GET /api/history/:projectId: 400 or 404
\* when the id is refused, else the log, or its runs (data.runs || []). The
\* answer is what fs.readFile finds, so the handler is one step, taken at
\* the read.
GetLog(endpoint, p) ==
    /\ LET validation == validateAndGetProject(p)
           data == ResultsOrDefault(IF p \in DOMAIN files THEN files[p] ELSE Absent)
       IN  replies' = replies \cup
               {IF "error" \in DOMAIN validation
                THEN [endpoint |-> endpoint, projectId |-> p, status |-> validation.status,
                      error |-> validation.error]
                ELSE IF endpoint = "results"
                THEN [endpoint |-> endpoint, projectId |-> p, status |-> 200,
                      runs |-> data.runs, lastRun |-> data.lastRun]
                ELSE [endpoint |-> endpoint, projectId |-> p, status |-> 200,
                      runs |-> data.runs]}
    /\ UNCHANGED <<manual, clock, files, runs, batch, uploads, clients, wire>>

\* POST /api/run-all: acknowledge, enter the loop and call the first run
RunAll ==
    /\ batch.pc = "idle"
    /\ LET runnable == SelectSeq(DiscoveredOrder, CanRunFromUI)
       IN  /\ runnable # <<>>
           /\ FreeRunSlots # {}
           /\ runs' = CallRun(NextRunSlot, Head(runnable), "batch")
           /\ batch' = [pc |-> "looping", queue |-> Tail(runnable), cur |-> NextRunSlot]
           /\ replies' = replies \cup
                  {[endpoint |-> "run-all", status |-> 200, projects |-> runnable,
                    skipped  |-> {q \in Discovered : ~CanRunFromUI(q)}]}
    /\ UNCHANGED <<manual, clock, files, uploads, clients, wire>>

\* mutant: a run that threw ends the loop
BatchNextAbortsOnThrow ==
    /\ batch.pc = "looping"
    /\ runs[batch.cur].pc = "done"
    /\ IF batch.queue = <<>> \/ runs[batch.cur].writeFailed
       THEN /\ batch' = [pc |-> "done", queue |-> <<>>, cur |-> 0]
            /\ UNCHANGED <<manual, runs>>
       ELSE /\ FreeRunSlots # {}
            /\ runs' = CallRun(NextRunSlot, Head(batch.queue), "batch")
            /\ batch' = [batch EXCEPT !.queue = Tail(batch.queue), !.cur = NextRunSlot]
    /\ UNCHANGED <<manual, clock, files, uploads, clients, wire, replies>>

\* mutant: the loop does not await the run it called
BatchNextNoAwait ==
    /\ batch.pc = "looping"
    /\ IF batch.queue = <<>>
       THEN /\ batch' = [pc |-> "done", queue |-> <<>>, cur |-> 0]
            /\ UNCHANGED <<manual, runs>>
       ELSE /\ FreeRunSlots # {}
            /\ runs' = CallRun(NextRunSlot, Head(batch.queue), "batch")
            /\ batch' = [batch EXCEPT !.queue = Tail(batch.queue), !.cur = NextRunSlot]
    /\ UNCHANGED <<manual, clock, files, uploads, clients, wire, replies>>

\* the loop of run-all after `await runTestsForProject` returned or threw
\* (the catch only logs): next project, or the end of the loop
BatchNext ==
    /\ batch.pc = "looping"
    /\ runs[batch.cur].pc = "done"
    /\ IF batch.queue = <<>>
       THEN /\ batch' = [pc |-> "done", queue |-> <<>>, cur |-> 0]
            /\ UNCHANGED <<manual, runs>>
       ELSE /\ FreeRunSlots # {}
            /\ runs' = CallRun(NextRunSlot, Head(batch.queue), "batch")
            /\ batch' = [batch EXCEPT !.queue = Tail(batch.queue), !.cur = NextRunSlot]
    /\ UNCHANGED <<manual, clock, files, uploads, clients, wire, replies>>

\* How the dry listing `npx playwright test --list --reporter=json` ends:
\* the 'error' event (the launch failed), or 'close' with the collected
\* output, which holds no '{', text that is not JSON, or a report.
ListingOutcomes ==
    {[event |-> "error", stdout |-> EmptyText]}
    \cup {[event |-> "close", stdout |-> s] :
             s \in {EmptyText, Text("partial", ErrPrefixLen, Invalid, Invalid)}
                   \cup {Text("list", ErrPrefixLen, [suites |-> tr], [suites |-> tr]) :
                            tr \in {<<>>, TreeOne, TreeMixed}}}

\* mutant: a listing that cannot be parsed resolves with -1
getTestCountSignalsFailure(outcome) ==
    IF outcome.event = "error" \/ outcome.stdout.first \in {NoJson, Invalid} THEN 0 - 1
    ELSE 0

\* the value getTestCount resolves with: 0 on 'error', 0 when the output
\* holds no '{', 0 when JSON.parse throws, else the number of the tests of
\* the specs of the suites, at every depth
getTestCount(outcome) ==
    LET RECURSIVE countTests(_)
        countTests(suites) ==
            IF suites = <<>> THEN 0
            ELSE LET suite == Head(suites)
                     specs == FieldOr(suite, "specs", <<>>)
                     RECURSIVE OfSpecs(_)
                     OfSpecs(sp) ==
                         IF sp = <<>> THEN 0
                         ELSE Len(FieldOr(Head(sp), "tests", <<>>)) + OfSpecs(Tail(sp))
                 IN  OfSpecs(specs) + countTests(FieldOr(suite, "suites", <<>>))
                                    + countTests(Tail(suites))
    IN  IF outcome.event = "error" THEN 0
        ELSE IF outcome.stdout.first = NoJson THEN 0
        ELSE IF outcome.stdout.first = Invalid THEN 0
        ELSE countTests(FieldOr(outcome.stdout.first, "suites", <<>>))

\* getTestCount resolved: expectedTotal, broadcast tests:started, spawn the
\* test process
ListingDone(r, outcome) ==
    /\ runs[r].pc = "listing"
    /\ runs' = [runs EXCEPT ![r].pc = "running", ![r].child = "alive",
                            ![r].started = @ + 1,
                            ![r].listing = outcome,
                            ![r].expectedTotal = getTestCount(outcome),
                            ![r].args = SpawnArgs(runs[r].grep)]
    /\ wire' = broadcast(wire, clients,
                         << Message("tests:started",
                                    [projectId |-> runs[r].project, grep |-> runs[r].grep,
                                     expectedTotal |-> getTestCount(outcome),
                                     startTime |-> toISOString(runs[r].startTime)],
                                    clock) >>)
    /\ UNCHANGED <<manual, clock, files, batch, uploads, clients, replies>>

\* child.stdout.on('data'): the chunk (t, of which the reporter lines are
\* the pieces) is appended to stdout and to the line buffer, and the complete
\* lines that the buffer now holds are parsed for progress. The stream
\* delivers data only before 'close', and a child that failed to launch
\* delivers none; a chunk that follows the report is not modelled.
ChildData(r, t, pieces) ==
    /\ runs[r].child = "alive"
    /\ runs[r].pc = "running"
    /\ runs[r].chunks < MaxChunks
    /\ runs[r].stdout.first = NoJson
    /\ LET run == runs[r]
           st  == Feed([buffer |-> run.stdoutBuffer, lines |-> <<>>,
                        progress |-> run.progress, seen |-> run.seenSkippedTests,
                        emitted |-> <<>>, totals |-> <<>>,
                        expectedTotal |-> run.expectedTotal], pieces)
       IN  /\ runs' = [runs EXCEPT ![r] =
                       [run EXCEPT !.stdout = Concat(run.stdout, t),
                                   !.chunks = @ + 1,
                                   !.chunk = pieces,
                                   !.stdoutBuffer = st.buffer,
                                   !.lines = st.lines,
                                   !.totals = st.totals,
                                   !.progress = st.progress,
                                   !.seenSkippedTests = st.seen,
                                   !.emitted = st.emitted,
                                   !.progressSent = @ + Len(st.emitted)]]
           /\ wire' = broadcast(wire, clients,
                                [i \in DOMAIN st.emitted |->
                                    Message("tests:progress",
                                            [projectId |-> run.project,
                                             progress  |-> st.emitted[i],
                                             expectedTotal |-> st.totals[i]], clock)])
    /\ UNCHANGED <<manual, clock, files, batch, uploads, clients, replies>>

\* the spawn option timeout: 300000 expires, the child is sent the signal
ChildTimeout(r) ==
    /\ runs[r].pc = "running"
    /\ runs[r].child = "alive"
    /\ ~runs[r].killed
    /\ runs' = [runs EXCEPT ![r].killed = TRUE]
    /\ UNCHANGED <<manual, clock, files, batch, uploads, clients, wire, replies>>

\* child.on('close'); an event that arrives after the invocation ended finds
\* the promise settled and changes nothing
ChildClose(r, code) ==
    /\ runs[r].pc \in {"running", "reading", "writing"}
    /\ runs[r].child = "alive"
    /\ code \in CloseCodes(runs[r].killed)
    /\ runs' = [runs EXCEPT ![r] =
                   OnResolve([@ EXCEPT !.child = "closed", !.closeCode = code],
                             r, CloseResult(@.stdout, code), clock)]
    /\ UNCHANGED <<manual, clock, files, batch, uploads, clients, wire, replies>>

\* child.on('error'): the launch failed, or the child could not be signalled
ChildError(r) ==
    /\ runs[r].pc \in {"running", "reading", "writing"}
    /\ ~runs[r].errorFired
    /\ runs' = [runs EXCEPT ![r] =
                   OnResolve([@ EXCEPT !.errorFired = TRUE],
                             r, ErrorResult(ErrMessage), clock)]
    /\ UNCHANGED <<manual, clock, files, batch, uploads, clients, wire, replies>>

\* fs.readFile resolved or threw: existingData; unshift, slice and lastRun
\* follow in the same turn, then fs.writeFile is started
ReadDone(r) ==
    /\ runs[r].pc = "reading"
    /\ runs' = [runs EXCEPT ![r].pc = "writing",
                            ![r].existing = LoadExisting(files[runs[r].project])]
    /\ UNCHANGED <<manual, clock, files, batch, uploads, clients, wire, replies>>

\* fs.writeFile resolved: broadcast tests:completed, return run
WriteOk(r) ==
    /\ runs[r].pc = "writing"
    /\ \E left \in Written(runs[r].project,
                           JSONStringify(AppendRun(runs[r].existing, runs[r].rec)),
                           runs[r].raced) :
           files' = [files EXCEPT ![runs[r].project] = left]
    /\ runs' = [MarkRaced(runs, runs[r].project) EXCEPT
                   ![r] = Finished([runs[r] EXCEPT !.completed = @ + 1])]
    /\ uploads' = MarkRaced(uploads, runs[r].project)
    /\ wire' = broadcast(wire, clients,
                         << Message("tests:completed",
                                    [projectId |-> runs[r].project, run |-> runs[r].rec],
                                    clock) >>)
    /\ UNCHANGED <<manual, clock, batch, clients, replies>>

\* fs.writeFile rejected: runTestsForProject rejects, and the caller's catch
\* broadcasts tests:error in POST /api/run/:projectId and nothing
\* (console.error) in the loop of POST /api/run-all
WriteFail(r) ==
    /\ runs[r].pc = "writing"
    /\ \E left \in FailedWrite(files[runs[r].project],
                               JSONStringify(AppendRun(runs[r].existing, runs[r].rec))) :
           files' = [files EXCEPT ![runs[r].project] = left]
    /\ runs' = [MarkRaced(runs, runs[r].project) EXCEPT ![r] =
                   Finished([runs[r] EXCEPT !.writeFailed = TRUE,
                                            !.errored = @ + (IF runs[r].trigger = "single" THEN 1 ELSE 0)])]
    /\ uploads' = MarkRaced(uploads, runs[r].project)
    /\ wire' = broadcast(wire, clients,
                         [i \in 1 .. (IF runs[r].trigger = "single" THEN 1 ELSE 0) |->
                             Message("tests:error",
                                     [projectId |-> runs[r].project, error |-> "write failed"],
                                     clock)])
    /\ UNCHANGED <<manual, clock, batch, clients, replies>>

\* POST /api/upload/:projectId with a valid id and a stats object:
\* ensureResultsDir, the run record is created, fs.readFile is started
UploadRequest(u, p, body) ==
    /\ uploads[u].pc = "idle"
    /\ \A v \in (1 .. MaxUploads) : v < u => uploads[v].pc # "idle"
    /\ uploads' = [uploads EXCEPT ![u] =
                      [IdleUpload EXCEPT !.pc = "reading", !.project = p,
                                         !.rec = UploadRecord(clock, body, <<"upload", u>>)]]
    /\ UNCHANGED <<manual, clock, files, runs, batch, clients, wire, replies>>

UploadRead(u) ==
    /\ uploads[u].pc = "reading"
    /\ uploads' = [uploads EXCEPT ![u].pc = "writing",
                                  ![u].existing = LoadExisting(files[uploads[u].project])]
    /\ UNCHANGED <<manual, clock, files, runs, batch, clients, wire, replies>>

\* fs.writeFile resolved: broadcast results:uploaded, answer the request
UploadWriteOk(u) ==
    /\ uploads[u].pc = "writing"
    /\ \E left \in Written(uploads[u].project,
                           JSONStringify(AppendRun(uploads[u].existing, uploads[u].rec)),
                           uploads[u].raced) :
           files' = [files EXCEPT ![uploads[u].project] = left]
    /\ uploads' = [MarkRaced(uploads, uploads[u].project) EXCEPT
                      ![u] = [uploads[u] EXCEPT !.pc = "done", !.rec = Undefined,
                                                !.existing = Undefined, !.uploaded = @ + 1]]
    /\ runs' = MarkRaced(runs, uploads[u].project)
    /\ wire' = broadcast(wire, clients,
                         << Message("results:uploaded",
                                    [projectId |-> uploads[u].project, run |-> uploads[u].rec],
                                    clock) >>)
    /\ UNCHANGED <<manual, clock, batch, clients, replies>>

\* fs.writeFile rejected: the handler's promise rejects, nothing is broadcast
UploadWriteFail(u) ==
    /\ uploads[u].pc = "writing"
    /\ \E left \in FailedWrite(files[uploads[u].project],
                               JSONStringify(AppendRun(uploads[u].existing, uploads[u].rec))) :
           files' = [files EXCEPT ![uploads[u].project] = left]
    /\ uploads' = [MarkRaced(uploads, uploads[u].project) EXCEPT
                      ![u] = [uploads[u] EXCEPT !.pc = "done", !.rec = Undefined,
                                                !.existing = Undefined, !.writeFailed = TRUE]]
    /\ runs' = MarkRaced(runs, uploads[u].project)
    /\ UNCHANGED <<manual, clock, batch, clients, wire, replies>>

\* The server process is killed while fs.writeFile is in flight, and is
\* started again. Every invocation in flight ends where it is and every
\* connection is gone; a file that was being written is left as it was,
\* complete, or truncated and not written to the end.
Crash ==
    /\ \E p \in Discovered : Writers(p) # {}
    /\ \E left \in [Discovered ->
                      {files[p] : p \in Discovered} \cup {Corrupt} \cup
                      UNION {{JSONStringify(AppendRun(w.existing, w.rec)) : w \in Writers(p)} :
                                p \in Discovered}] :
           /\ \A p \in Discovered :
                  left[p] \in {files[p]} \cup
                      (IF Writers(p) = {} THEN {}
                       ELSE {Corrupt} \cup {JSONStringify(AppendRun(w.existing, w.rec)) :
                                               w \in Writers(p)})
           /\ files' = left
    /\ runs' = [r \in RunSlots |->
                   IF runs[r].pc \in {"idle", "done"} THEN runs[r]
                   ELSE [runs[r] EXCEPT !.pc = "crashed", !.child = "none"]]
    /\ uploads' = [u \in (1 .. MaxUploads) |->
                      IF uploads[u].pc \in {"idle", "done"} THEN uploads[u]
                      ELSE [uploads[u] EXCEPT !.pc = "crashed"]]
    /\ batch' = IF batch.pc = "looping" THEN [pc |-> "crashed", queue |-> <<>>, cur |-> 0]
                ELSE batch
    /\ clients' = [c \in ClientIds |->
                      IF clients[c] = NoClient THEN NoClient
                      ELSE [connected |-> FALSE, readyState |-> "CLOSED"]]
    /\ UNCHANGED <<manual, clock, wire, replies>>

\* wss.on('connection'): the socket is OPEN and joins the set
ClientConnect(c) ==
    /\ clients[c] = NoClient
    /\ \A d \in ClientIds : d < c => clients[d] # NoClient
    /\ clients' = [clients EXCEPT ![c] = [connected |-> TRUE, readyState |-> "OPEN"]]
    /\ UNCHANGED <<manual, clock, files, runs, batch, uploads, wire, replies>>

\* the closing handshake has begun: readyState is CLOSING, 'close' has not
\* been emitted yet
ClientClosing(c) ==
    /\ clients[c].readyState = "OPEN"
    /\ clients' = [clients EXCEPT ![c].readyState = "CLOSING"]
    /\ UNCHANGED <<manual, clock, files, runs, batch, uploads, wire, replies>>

\* ws.on('close'): clients.delete(ws)
ClientClose(c) ==
    /\ clients[c].readyState \in {"OPEN", "CLOSING"}
    /\ clients' = [clients EXCEPT ![c] = [connected |-> FALSE, readyState |-> "CLOSED"]]
    /\ UNCHANGED <<manual, clock, files, runs, batch, uploads, wire, replies>>

\* ws.on('error'): clients.delete(ws); 'close' follows
ClientError(c) ==
    /\ clients[c].connected
    /\ clients' = [clients EXCEPT ![c].connected = FALSE]
    /\ UNCHANGED <<manual, clock, files, runs, batch, uploads, wire, replies>>

\* The orchestrator: single-project and run-all requests, up to MaxRuns
\* invocations of runTestsForProject in flight together.
Next ==
    \/ \E p \in Discovered : CanRunFromUI(p) /\ RunSingle(p)
    \/ RunAll
    \/ BatchNext
    \/ \E r \in RunSlots : ListingDone(r, [event |-> "error", stdout |-> EmptyText])
    \/ \E r \in RunSlots, t \in ChunkTexts :
           runs[r].pc = "running" /\ runs[r].stdout = EmptyText /\ ChildData(r, t, <<>>)
    \/ \E r \in RunSlots : ChildTimeout(r)
    \/ \E r \in RunSlots, code \in {Signalled, Exited(0), Exited(1)} : ChildClose(r, code)
    \/ \E r \in RunSlots : ChildError(r)
    \/ \E r \in RunSlots : ReadDone(r)
    \/ \E r \in RunSlots : WriteOk(r)
    \/ \E r \in RunSlots : WriteFail(r)

Spec == Init /\ [][Next]_vars

\* One request, for a single project or for all of them, with everything the
\* child process of a run can do, on a history file that is absent or full.
RunnerNext ==
    \/ Tick
    \/ \E p \in Discovered : CanRunFromUI(p) /\ FreeRunSlots = RunSlots /\ RunSingle(p)
    \/ FreeRunSlots = RunSlots /\ RunAll
    \/ BatchNext
    \/ \E r \in RunSlots : ListingDone(r, [event |-> "error", stdout |-> EmptyText])
    \/ \E r \in RunSlots, t \in ChunkTexts :
           runs[r].pc = "running" /\ runs[r].stdout = EmptyText /\ ChildData(r, t, <<>>)
    \/ \E r \in RunSlots : ChildTimeout(r)
    \/ \E r \in RunSlots, code \in {Signalled, Exited(0), Exited(1)} : ChildClose(r, code)
    \/ \E r \in RunSlots : ChildError(r)
    \/ \E r \in RunSlots : ReadDone(r)
    \/ \E r \in RunSlots : WriteOk(r)
    \/ \E r \in RunSlots : WriteFail(r)

RunnerSpec == Init /\ [][RunnerNext]_vars

\* The history store: CI uploads and one run whose child prints its report
\* and exits, interleaved in every order while the clock advances.
StoreNext ==
    \/ Tick
    \/ \E p \in UploadTargets : FreeRunSlots = RunSlots /\ RunSingle(p)
    \/ \E r \in RunSlots : ListingDone(r, [event |-> "error", stdout |-> EmptyText])
    \/ \E r \in RunSlots :
           runs[r].pc = "running" /\ runs[r].stdout = EmptyText /\ ChildData(r, StatsText, <<>>)
    \/ \E r \in RunSlots : runs[r].pc = "running" /\ ChildClose(r, Exited(0))
    \/ \E r \in RunSlots : ReadDone(r)
    \/ \E r \in RunSlots : WriteOk(r)
    \/ \E r \in RunSlots : WriteFail(r)
    \/ \E u \in (1 .. MaxUploads), p \in UploadTargets, body \in UploadBodies :
           UploadRequest(u, p, body)
    \/ \E u \in (1 .. MaxUploads) : UploadRead(u)
    \/ \E u \in (1 .. MaxUploads) : UploadWriteOk(u)
    \/ \E u \in (1 .. MaxUploads) : UploadWriteFail(u)

StoreSpec == Init /\ [][StoreNext]_vars

\* The progress parser: one run, whose listing ends in any of the ways it
\* can, and whose child prints reporter lines, one complete line (or none)
\* per 'data' event, until it exits.
ParserNext ==
    \/ \E p \in UploadTargets : FreeRunSlots = RunSlots /\ RunSingle(p)
    \/ \E r \in RunSlots, outcome \in ListingOutcomes : ListingDone(r, outcome)
    \/ \E r \in RunSlots, ls \in {<<>>} \cup {<<l>> : l \in ReporterLines} :
           runs[r].pc = "running" /\ ChildData(r, LinesText, Aligned(ls))
    \/ \E r \in RunSlots : runs[r].pc = "running" /\ ChildClose(r, Exited(0))

ParserSpec == Init /\ [][ParserNext]_vars

\* The result summarizer: one run whose child has printed one of the texts
\* (or nothing) when it closes.
SummaryNext ==
    \/ \E p \in UploadTargets : FreeRunSlots = RunSlots /\ RunSingle(p)
    \/ \E r \in RunSlots : ListingDone(r, [event |-> "error", stdout |-> EmptyText])
    \/ \E r \in RunSlots, t \in ReportTexts \cup UnparseableTexts :
           runs[r].pc = "running" /\ runs[r].stdout = EmptyText /\ ChildData(r, t, <<>>)
    \/ \E r \in RunSlots, code \in {Exited(0), Exited(1)} :
           runs[r].pc = "running" /\ ChildClose(r, code)
    \/ \E r \in RunSlots : ReadDone(r)
    \/ \E r \in RunSlots : WriteOk(r)
    \/ \E r \in RunSlots : WriteFail(r)

SummarySpec == Init /\ [][SummaryNext]_vars

\* The life of a run: one request, for a single project or for all, whose
\* children print progress lines, time out, close and fail to launch.
LifecycleNext ==
    \/ \E p \in Discovered : CanRunFromUI(p) /\ FreeRunSlots = RunSlots /\ RunSingle(p)
    \/ FreeRunSlots = RunSlots /\ RunAll
    \/ BatchNext
    \/ \E r \in RunSlots : ListingDone(r, [event |-> "error", stdout |-> EmptyText])
    \/ \E r \in RunSlots, ls \in {<<>>, <<SkipMarkerLine(2)>>} :
           runs[r].stdout = EmptyText /\ ChildData(r, LinesText, Aligned(ls))
    \/ \E r \in RunSlots : ChildTimeout(r)
    \/ \E r \in RunSlots, code \in {Signalled, Exited(0), Exited(1)} : ChildClose(r, code)
    \/ \E r \in RunSlots : ChildError(r)
    \/ \E r \in RunSlots : ReadDone(r)
    \/ \E r \in RunSlots : WriteOk(r)
    \/ \E r \in RunSlots : WriteFail(r)

LifecycleSpec == Init /\ [][LifecycleNext]_vars

\* The same under the scheduling of the event loop: a pending callback is
\* run, a file operation settles, the listing ends (by itself or by its
\* timeout of 30 s) and the test process closes (by itself or after the
\* signal of its timeout of 5 min).
LifecycleFairness ==
    /\ WF_vars(BatchNext)
    /\ \A r \in RunSlots :
          /\ WF_vars(ListingDone(r, [event |-> "error", stdout |-> EmptyText]))
          /\ WF_vars(\E code \in {Signalled, Exited(0), Exited(1)} : ChildClose(r, code))
          /\ WF_vars(ReadDone(r))
          /\ WF_vars(WriteOk(r) \/ WriteFail(r))

LifecycleFairSpec == LifecycleSpec /\ LifecycleFairness

\* The triggers: requests for single projects of every kind of id and for
\* all projects, with runs whose children exit at once.
TriggerNext ==
    \/ \E p \in RequestIds : RunSingle(p)
    \/ RunAll
    \/ BatchNext
    \/ \E r \in RunSlots : ListingDone(r, [event |-> "error", stdout |-> EmptyText])
    \/ \E r \in RunSlots : runs[r].pc = "running" /\ ChildClose(r, Exited(0))
    \/ \E r \in RunSlots : ReadDone(r)
    \/ \E r \in RunSlots : WriteOk(r)

TriggerSpec == Init /\ [][TriggerNext]_vars

\* The broadcaster: observers connect, close and fail while one run
\* broadcasts its events.
BroadcastNext ==
    \/ \E c \in ClientIds : ClientConnect(c)
    \/ \E c \in ClientIds : ClientClosing(c)
    \/ \E c \in ClientIds : ClientClose(c)
    \/ \E c \in ClientIds : ClientError(c)
    \/ \E p \in UploadTargets : FreeRunSlots = RunSlots /\ RunSingle(p)
    \/ \E r \in RunSlots : ListingDone(r, [event |-> "error", stdout |-> EmptyText])
    \/ \E r \in RunSlots :
           runs[r].stdout = EmptyText /\ ChildData(r, LinesText, Aligned(<<SkipMarkerLine(1)>>))
    \/ \E r \in RunSlots : runs[r].pc = "running" /\ ChildClose(r, Exited(0))
    \/ \E r \in RunSlots : ReadDone(r)
    \/ \E r \in RunSlots : WriteOk(r)
    \/ \E r \in RunSlots : WriteFail(r)

BroadcastSpec == Init /\ [][BroadcastNext]_vars

\* The grep of a request: one single-project request with any of the grep
\* values, whose run spawns the test process and ends.
GrepNext ==
    \/ \E p \in UploadTargets, grep \in GrepInputs \cup {NoGrep} :
           FreeRunSlots = RunSlots /\ PostRun(p, grep)
    \/ \E r \in RunSlots : ListingDone(r, [event |-> "error", stdout |-> EmptyText])
    \/ \E r \in RunSlots : runs[r].pc = "running" /\ ChildClose(r, Exited(0))
    \/ \E r \in RunSlots : ReadDone(r)
    \/ \E r \in RunSlots : WriteOk(r)

GrepSpec == Init /\ [][GrepNext]_vars

\* The readers: requests for the log, its runs and a run, with every kind
\* of id, on a log of "alpha" that is absent or full.
ReadNext ==
    \/ \E endpoint \in {"results", "history"}, p \in RequestIds :
           Cardinality(replies) < MaxReplies /\ GetLog(endpoint, p)
    \/ \E p \in RequestIds :
           Cardinality(replies) < MaxReplies /\ FreeRunSlots = RunSlots /\ RunSingle(p)

ReadSpec == Init /\ [][ReadNext]_vars

\* The store across a restart: runs of "alpha" one after the other, the
\* process killed during a history write, and readers of the log.
CrashNext ==
    \/ \E p \in UploadTargets :
           (\A r \in RunSlots : runs[r].pc \in {"idle", "done", "crashed"}) /\ RunSingle(p)
    \/ \E r \in RunSlots : ListingDone(r, [event |-> "error", stdout |-> EmptyText])
    \/ \E r \in RunSlots :
           runs[r].pc = "running" /\ runs[r].stdout = EmptyText /\ ChildData(r, StatsText, <<>>)
    \/ \E r \in RunSlots : runs[r].pc = "running" /\ ChildClose(r, Exited(0))
    \/ \E r \in RunSlots : ReadDone(r)
    \/ \E r \in RunSlots : WriteOk(r)
    \/ Crash
    \/ \E p \in UploadTargets : Cardinality(replies) < MaxReplies /\ GetLog("results", p)

CrashSpec == Init /\ [][CrashNext]_vars

\* The text a child prints is a sequence of lines, each followed by "\n";
\* the stream cuts it into chunks anywhere, also inside a line. So in the
\* text delivered so far a line starts the text or follows a "\n", and the
\* first fragment of a line is followed by its second fragment.
ReporterText(text) ==
    \A i \in DOMAIN text :
        LET before == IF i = 1 THEN Piece("nl", PlainLine) ELSE text[i - 1]
        IN  /\ text[i].piece \in {"line", "head"} => before.piece = "nl"
            /\ text[i].piece = "tail" =>
                   (i > 1 /\ before.piece = "head" /\ before.of = text[i].of)
            /\ text[i].piece = "nl" => before.piece # "head"

\* The line buffer: one run whose child prints progress, failure and skip
\* lines, delivered in chunks of up to MaxPieces pieces that are cut at any
\* place of the text.
ChunkNext ==
    \/ \E p \in UploadTargets : FreeRunSlots = RunSlots /\ RunSingle(p)
    \/ \E r \in RunSlots : ListingDone(r, [event |-> "error", stdout |-> EmptyText])
    \/ \E r \in RunSlots, n \in 1 .. MaxPieces :
           \E chunk \in [1 .. n ->
                           {Piece("nl", PlainLine)} \cup
                           {Piece(kind, l) : kind \in {"line", "head", "tail"},
                                             l \in {ProgressLine(1), FailureLine(1),
                                                    SkipMarkerLine(2)}}] :
               /\ runs[r].pc = "running"
               /\ ReporterText(runs[r].stdoutBuffer \o chunk)
               /\ ChildData(r, LinesText, chunk)
    \/ \E r \in RunSlots : runs[r].pc = "running" /\ ChildClose(r, Exited(0))

ChunkSpec == Init /\ [][ChunkNext]_vars

\* Two runs in flight: runs of alpha and beta whose children print at the
\* same time, in chunks that end at a line end or inside a line.
ConcurrentNext ==
    \/ \E p \in {"alpha", "beta"} :
           (\A r \in RunSlots : runs[r].project # p) /\ RunSingle(p)
    \/ \E r \in RunSlots : ListingDone(r, [event |-> "error", stdout |-> EmptyText])
    \/ \E r \in RunSlots,
          chunk \in {Aligned(<<ProgressLine(2)>>), Aligned(<<SkipMarkerLine(1)>>),
                     <<Piece("head", FailureLine(1))>>,
                     <<Piece("tail", FailureLine(1)), Piece("nl", PlainLine)>>} :
           /\ runs[r].pc = "running"
           /\ ReporterText(runs[r].stdoutBuffer \o chunk)
           /\ ChildData(r, LinesText, chunk)
    \/ \E r \in RunSlots : runs[r].pc = "running" /\ ChildClose(r, Exited(0))

ConcurrentSpec == Init /\ [][ConcurrentNext]_vars

\* The manual-test API: up to MaxRequests requests, handled concurrently.
SessionNext ==
    \E q \in RequestSlots :
        \/ CreateSession(q)
        \/ PatchItem(q)
        \/ DeleteItem(q)
        \/ AddItem(q)

SessionSpec == Init /\ [][SessionNext]_vars

\* The dry listing: runs of alpha and beta whose listing ends in any of the
\* ways it can, and whose child prints a line and exits or fails to launch.
ListingNext ==
    \/ \E p \in {"alpha", "beta"} : RunSingle(p)
    \/ \E r \in RunSlots, outcome \in ListingOutcomes : ListingDone(r, outcome)
    \/ \E r \in RunSlots :
           /\ runs[r].pc = "running" /\ runs[r].chunks = 0
           /\ ChildData(r, LinesText, Aligned(<<ProgressLine(1)>>))
    \/ \E r \in RunSlots : runs[r].pc = "running" /\ ChildClose(r, Exited(0))
    \/ \E r \in RunSlots : runs[r].pc = "running" /\ ChildError(r)

\* The listing child ends: Node.js emits 'error' when the launch fails and
\* 'close' when the process has ended and its streams are closed, which the
\* signal of `timeout: 30000` forces after 30 seconds.
ListingSpec ==
    /\ Init /\ [][ListingNext]_vars
    /\ \A r \in RunSlots : WF_vars(\E outcome \in ListingOutcomes : ListingDone(r, outcome))

---------------------------------------------------------------------------
(* Observations used by the properties *)

\* the step is a 'data' event of run r
DataStep(r) == runs'[r].chunks = runs[r].chunks + 1

\* the report the summarizer obtained from the output of a settled run
ParsedReport(run) == ParseOutput(run.result.stdout)

\* the statuses of the leaf tests of a suite tree, at every depth
RECURSIVE LeavesOf(_)
LeavesOf(suites) ==
    IF suites = <<>> THEN <<>>
    ELSE LET suite == Head(suites)
             specs == FieldOr(suite, "specs", <<>>)
             RECURSIVE OfSpecs(_)
             OfSpecs(sp) ==
                 IF sp = <<>> THEN <<>>
                 ELSE [i \in DOMAIN FieldOr(Head(sp), "tests", <<>>) |->
                          FieldOr(Head(sp), "tests", <<>>)[i].status] \o OfSpecs(Tail(sp))
         IN  OfSpecs(specs) \o LeavesOf(FieldOr(suite, "suites", <<>>)) \o LeavesOf(Tail(suites))

\* how many leaves carry one of the statuses
LeafCount(suites, statuses) ==
    Cardinality({i \in DOMAIN LeavesOf(suites) : LeavesOf(suites)[i] \in statuses})

\* the projects the acknowledgement of run-all listed
Acknowledged ==
    IF \E reply \in replies : reply.endpoint = "run-all"
    THEN (CHOOSE reply \in replies : reply.endpoint = "run-all").projects
    ELSE <<>>

\* the projects of the runs the batch has called so far, in the order of
\* the calls (the slots are taken in increasing order)
BatchCalled ==
    LET slots == SelectSeq([r \in RunSlots |-> r],
                           LAMBDA r : runs[r].trigger = "batch")
    IN  [i \in DOMAIN slots |-> runs[slots[i]].project]

Started == {r \in RunSlots : runs[r].pc # "idle"}

\* the terminal broadcasts of one run: tests:completed and tests:error
Terminal(run) == run.completed + run.errored

\* the log as GET /api/results/:projectId and /api/history read it
StoredRuns(p) == IF IsLog(files[p]) THEN readProjectResults(files[p]).runs ELSE <<>>

\* the history file holds a record created by the invocation `by`
HasRecordBy(p, by) == \E i \in DOMAIN StoredRuns(p) : StoredRuns(p)[i].by = by

\* the promise of run was settled by the 'error' event of the child
SettledByError(run) == run.result = ErrorResult(ErrMessage)

\* the invocations, runs and uploads, whose fs.writeFile on the file of
\* project p was fulfilled, and those whose fs.writeFile was rejected
Fulfilled(p) ==
    {<<"run", r>> : r \in {q \in RunSlots : runs[q].project = p /\ runs[q].completed = 1}}
    \cup {<<"upload", u>> :
             u \in {v \in (1 .. MaxUploads) : uploads[v].project = p /\ uploads[v].uploaded = 1}}

Rejected(p) ==
    {<<"run", r>> : r \in {q \in RunSlots : runs[q].project = p /\ runs[q].writeFailed}}
    \cup {<<"upload", u>> :
             u \in {v \in (1 .. MaxUploads) : uploads[v].project = p /\ uploads[v].writeFailed}}

\* a step wrote the log of project p
Appended(p) == files'[p] # files[p] /\ IsLog(files'[p])

---------------------------------------------------------------------------
(* C1: every run, triggered by the single-project endpoint or by the       *)
(* run-all batch, however it fails, emits exactly one terminal broadcast   *)
(* (tests:completed or tests:error): never more than one, and one once the *)
(* run has ended.                                                          *)
C1_ExactlyOneTerminal ==
    \A r \in Started :
        /\ Terminal(runs[r]) <= 1
        /\ runs[r].pc = "done" => Terminal(runs[r]) = 1

(* C2: a run whose test process was killed by the spawn timeout still has  *)
(* its promise resolved when the child closes, and emits exactly one       *)
(* terminal broadcast: never more than one, and one once it has ended.     *)
C2_TimeoutExactlyOneTerminal ==
    \A r \in Started :
        runs[r].killed =>
            /\ runs[r].child = "closed" => runs[r].result # Pending
            /\ Terminal(runs[r]) <= 1
            /\ runs[r].pc = "done" => Terminal(runs[r]) = 1

(* C3: when the child killed by the timeout closes with no numeric exit    *)
(* code, the promise resolves with a non-zero exitCode and the run record  *)
(* carries a non-zero exitCode.                                            *)
C3_TimeoutExitNonZero ==
    \A r \in Started :
        (runs[r].killed /\ runs[r].closeCode = Signalled /\ ~runs[r].errorFired) =>
            /\ runs[r].result # Pending
            /\ runs[r].result.exitCode # 0
            /\ runs[r].rec # Undefined => runs[r].rec.exitCode # 0

C5_PromiseSettlesOnce ==
    [][\A r \in RunSlots :
          LET a == runs[r]
              b == runs'[r]
              closes == a.child = "alive" /\ b.child = "closed"
              errors == ~a.errorFired /\ b.errorFired
          IN  /\ (a.result # Pending /\ b.pc # "idle") => b.result = a.result
              /\ (a.result = Pending /\ closes) =>
                     b.result = [stdout |-> a.stdout,
                                 exitCode |-> IF b.closeCode = Signalled THEN 0
                                              ELSE b.closeCode[2]]
              /\ (a.result = Pending /\ errors) =>
                     b.result = [stdout |-> ErrMessage, exitCode |-> 1]
              /\ (a.result = Pending /\ b.result # Pending) => (closes \/ errors)
      ]_vars

C5_Witness ==
    \E r \in Started :
        /\ runs[r].child = "closed" /\ runs[r].errorFired
        /\ runs[r].result # Pending
        /\ runs[r].result.stdout # ErrMessage

(* C6: whenever tests:error was broadcast for a run, the history store     *)
(* holds no run record created by that run.                                *)
C6_ErrorMeansNoRecord ==
    \A r \in Started :
        runs[r].errored > 0 => ~HasRecordBy(runs[r].project, <<"run", r>>)

C6_Witness ==
    \E r \in Started :
        /\ runs[r].errored = 1 /\ runs[r].pc = "done"
        /\ IsLog(files[runs[r].project])

(* C7: a run whose process was killed by the timeout and then closed is    *)
(* handled like any other exit: the output collected so far is summarized  *)
(* into the stats and errors of its run record, and the record is written  *)
(* as the newest entry of the history with tests:completed, unless the     *)
(* history write itself fails.                                             *)
C7_TimeoutIsSummarisedAndAppended ==
    \A r \in Started :
        LET run == runs[r] IN
        /\ (run.killed /\ run.child = "closed" /\ ~run.errorFired) =>
              /\ run.pc \in {"reading", "writing"}
              /\ LET report == ParseOutput(run.stdout)
                 IN  /\ run.rec.stats =
                            ComputeStats(report, run.rec.stats.duration)
                     /\ run.rec.errors = report.errors
                     /\ run.rec.suites = report.suites
        /\ (run.killed /\ run.pc = "done" /\ ~run.writeFailed) =>
              /\ run.completed = 1 /\ run.errored = 0
              /\ StoredRuns(run.project) # <<>>
              /\ StoredRuns(run.project)[1].by = <<"run", r>>

C7_Witness ==
    \E r \in Started :
        /\ runs[r].killed /\ runs[r].pc = "done" /\ runs[r].completed = 1
        /\ runs[r].result.stdout = StatsText
        /\ StoredRuns(runs[r].project)[1].by = <<"run", r>>
        /\ StoredRuns(runs[r].project)[1].stats.total = 4

(* C8: the stored runs list never has more than 20 entries, and an append  *)
(* to a full list drops its last entry, the oldest, and keeps the other 19 *)
(* behind the new record.                                                  *)
C8_CapAndEviction ==
    /\ [](\A p \in Discovered : Len(StoredRuns(p)) <= 20)
    /\ [][\A p \in Discovered :
             Appended(p) =>
                \E w \in Writers(p) :
                   LET old == w.existing.runs
                       new == readProjectResults(files'[p]).runs
                   IN  /\ Len(new) = Min(Len(old) + 1, 20)
                       /\ Len(old) = 20 =>
                             /\ \A i \in 1 .. 19 : new[i + 1] = old[i]
                             /\ \A i \in 1 .. 20 : new[i] # old[20]
         ]_vars

C8_Witness ==
    /\ Len(StoredRuns("alpha")) = 20
    /\ StoredRuns("alpha")[1].by[1] \in {"run", "upload"}
    /\ StoredRuns("alpha")[2].by[1] \in {"run", "upload"}
    /\ StoredRuns("alpha")[20].by = <<"old", 3>>

(* C9: after every append, by a run or by an upload, the appended record   *)
(* is first in the runs list, the records that were there follow it in     *)
(* their order, and lastRun is runs[0].                                    *)
C9_NewestFirst ==
    /\ [](\A p \in Discovered :
             IsLog(files[p]) =>
                readProjectResults(files[p]).lastRun = StoredRuns(p)[1])
    /\ [][\A p \in Discovered :
             Appended(p) =>
                \E w \in Writers(p) :
                   LET new == readProjectResults(files'[p])
                   IN  /\ new.runs[1] = w.rec
                       /\ new.lastRun = w.rec
                       /\ \A i \in 2 .. Len(new.runs) :
                             new.runs[i] = w.existing.runs[i - 1]
         ]_vars

C9_Witness ==
    /\ Len(StoredRuns("alpha")) = 2
    /\ StoredRuns("alpha")[1].by[1] = "upload"
    /\ StoredRuns("alpha")[2].by[1] = "run"

(* C10: round trip: the lastRun read back from the file right after an     *)
(* append has the stats, the id and the timestamp of the record that was   *)
(* appended.                                                               *)
C10_RoundTrip ==
    [][\A p \in Discovered :
          Appended(p) =>
             \E w \in Writers(p) :
                LET got == readProjectResults(files'[p]).lastRun
                IN  /\ got.stats = w.rec.stats
                    /\ got.id = w.rec.id
                    /\ got.timestamp = w.rec.timestamp
      ]_vars

C10_Witness ==
    /\ IsLog(files["alpha"])
    /\ readProjectResults(files["alpha"]).lastRun.by[1] = "run"
    /\ readProjectResults(files["alpha"]).lastRun.stats.total = 4
    /\ readProjectResults(files["alpha"]).lastRun.id = ToString((HistoryCap + 1) + 1)

(* C11: no line fed to the progress parser lowers completed, failed or     *)
(* skipped: across every 'data' event each of the three counters is        *)
(* non-decreasing.                                                         *)
C11_CountersNonDecreasing ==
    [][\A r \in RunSlots :
          /\ runs'[r].progress.completed >= runs[r].progress.completed
          /\ runs'[r].progress.failed >= runs[r].progress.failed
          /\ runs'[r].progress.skipped >= runs[r].progress.skipped]_vars

(* C12: passed = completed - failed - skipped holds of the counters after  *)
(* every processed line and of the payload of every tests:progress         *)
(* broadcast.                                                              *)
C12_PassedIsDerived ==
    \A r \in RunSlots :
        /\ runs[r].progress.passed = runs[r].progress.completed
                                        - runs[r].progress.failed - runs[r].progress.skipped
        /\ \A i \in DOMAIN runs[r].emitted :
               LET sent == runs[r].emitted[i]
               IN  sent.passed = sent.completed - sent.failed - sent.skipped

C12_Witness ==
    \E r \in RunSlots :
        /\ Len(runs[r].emitted) = 1
        /\ runs[r].lines = <<FailureLine(1)>>
        /\ runs[r].progress.completed = 2
        /\ runs[r].progress.skipped = 1
        /\ runs[r].emitted[1].passed = 0

(* C13: an individual skip marker whose test number has already been       *)
(* counted changes no counter and emits no tests:progress: the same        *)
(* ordinal fed twice adds to the skip counter once.                        *)
C13_SkipOrdinalCountedOnce ==
    [][\A r \in RunSlots :
          (/\ DataStep(r)
           /\ Len(runs'[r].lines) = 1
           /\ IsSkipLine(runs'[r].lines[1])
           /\ runs'[r].lines[1].failure = <<>> /\ runs'[r].lines[1].count = <<>>
           /\ runs'[r].lines[1].marker[1] \in runs[r].seenSkippedTests)
          => /\ runs'[r].progress = runs[r].progress
             /\ runs'[r].seenSkippedTests = runs[r].seenSkippedTests
             /\ runs'[r].emitted = <<>>
             /\ runs'[r].progressSent = runs[r].progressSent]_vars

C13_Witness ==
    \E r \in RunSlots :
        /\ runs[r].chunks >= 2
        /\ runs[r].lines = <<SkipMarkerLine(2)>>
        /\ runs[r].seenSkippedTests = {2}
        /\ runs[r].progress.skipped = 1
        /\ runs[r].emitted = <<>>

(* C14: when the parsed report carries summary counts (stats.expected is a *)
(* number) the final stats are total = expected + unexpected + skipped,    *)
(* passed = expected, failed = unexpected, skipped = skipped, whatever the *)
(* suite tree holds, so total = passed + failed + skipped; a count the     *)
(* report lacks is taken as 0.                                             *)
C14_SummaryCountsWin ==
    \A r \in RunSlots :
        (runs[r].rec # Undefined /\ ParsedReport(runs[r]).stats # Undefined
           /\ "expected" \in DOMAIN ParsedReport(runs[r]).stats) =>
            LET given == ParsedReport(runs[r]).stats
                u     == IF "unexpected" \in DOMAIN given THEN given.unexpected ELSE 0
                k     == IF "skipped" \in DOMAIN given THEN given.skipped ELSE 0
                stats == runs[r].rec.stats
            IN  /\ stats.total = given.expected + u + k
                /\ stats.passed = given.expected
                /\ stats.failed = u
                /\ stats.skipped = k
                /\ stats.total = stats.passed + stats.failed + stats.skipped

C14_Witness ==
    \E r \in RunSlots :
        /\ runs[r].pc = "writing"
        /\ runs[r].rec.suites = TreeMixed
        /\ runs[r].rec.stats.total = 4
        /\ runs[r].rec.stats.passed = 2
        /\ runs[r].rec.stats.failed = 1

(* C15: when the parsed report has no summary counts the final stats count *)
(* the leaf tests of the suite tree at every depth: total is the number of *)
(* leaves, passed those with status passed or expected, failed those with  *)
(* failed or unexpected, skipped those with skipped.                       *)
C15_LeavesAreCounted ==
    \A r \in RunSlots :
        (runs[r].rec # Undefined /\ ParsedReport(runs[r]).stats = Undefined) =>
            LET tree  == ParsedReport(runs[r]).suites
                stats == runs[r].rec.stats
            IN  /\ stats.total = Len(LeavesOf(tree))
                /\ stats.passed = LeafCount(tree, {"passed", "expected"})
                /\ stats.failed = LeafCount(tree, {"failed", "unexpected"})
                /\ stats.skipped = LeafCount(tree, {"skipped"})

C15_Witness ==
    \E r \in RunSlots :
        /\ runs[r].pc = "writing"
        /\ runs[r].rec.suites = TreeMixed
        /\ runs[r].rec.stats.total = 5
        /\ runs[r].rec.stats.passed = 2
        /\ runs[r].rec.stats.failed = 1
        /\ runs[r].rec.stats.skipped = 1

(* C16: for output from which no report can be parsed the summarizer does  *)
(* not throw: the run goes on with suites = [], one error string of at     *)
(* most 500 characters and all-zero counts, and it completes (when the     *)
(* history write succeeds) instead of erroring.                            *)
C16_UnparseableIsRecovered ==
    \A r \in RunSlots :
        (runs[r].result # Pending /\ (LET t == runs[r].result.stdout
                                     IN  t.nl = Invalid \/ (t.nl = NoJson /\ t.first \in {NoJson, Invalid}))) =>
            /\ runs[r].pc \in {"reading", "writing", "done"}
            /\ runs[r].pc \in {"reading", "writing"} =>
                  /\ runs[r].rec # Undefined
                  /\ runs[r].rec.suites = <<>>
                  /\ Len(runs[r].rec.errors) = 1
                  /\ runs[r].rec.errors[1].len <= ErrPrefixLen
                  /\ runs[r].rec.errors[1].len > 0
                  /\ \A f \in {"total", "passed", "failed", "skipped"} :
                         runs[r].rec.stats[f] = 0
            /\ (runs[r].pc = "done" /\ ~runs[r].writeFailed) =>
                  runs[r].completed = 1 /\ runs[r].errored = 0

C16_Witness ==
    \E r \in RunSlots :
        /\ runs[r].pc = "writing"
        /\ runs[r].result.stdout.len = ErrPrefixLen + 1
        /\ runs[r].result.stdout.first = NoJson
        /\ runs[r].rec.errors[1].len = ErrPrefixLen

(* C17: each call of broadcast sends one message {event, data, timestamp}  *)
(* to every client that is in the set and OPEN at that moment, and nothing *)
(* to a client that is not OPEN or was removed by 'close' or 'error'; a    *)
(* skipped client stops nothing and is not sent the message later.         *)
C17_BroadcastReachesOpenClients ==
    [][\A c \in ClientIds :
          LET calls == wire'.calls - wire.calls
          IN  IF clients[c].connected /\ clients[c].readyState = "OPEN" /\ calls > 0
              THEN /\ wire'.inbox[c].received = wire.inbox[c].received + calls
                   /\ DOMAIN wire'.inbox[c].last = {"event", "data", "timestamp"}
                   /\ wire'.inbox[c].last.timestamp = toISOString(clock)
                   /\ \A d \in ClientIds :
                          (clients[d].connected /\ clients[d].readyState = "OPEN")
                              => wire'.inbox[d].last = wire'.inbox[c].last
              ELSE wire'.inbox[c] = wire.inbox[c]]_vars

C17_Witness ==
    \E c, d \in ClientIds :
        /\ wire.calls = 4
        /\ wire.inbox[c].received = 4
        /\ wire.inbox[c].last.event = "tests:completed"
        /\ clients[d].connected /\ clients[d].readyState = "CLOSING"
        /\ wire.inbox[d].received = 1
        /\ wire.inbox[d].last.event = "tests:started"

(* C18: the events of a run follow idle, started, running (any number of  *)
(* progress), completed or errored: tests:started is emitted once, before  *)
(* any                                                                     *)
(* tests:progress and before the terminal event, and after tests:completed *)
(* or tests:error neither tests:progress nor tests:started is emitted for  *)
(* the run.                                                                *)
C18_EventOrder ==
    /\ [](\A r \in RunSlots :
            /\ runs[r].started <= 1
            /\ runs[r].progressSent > 0 => runs[r].started = 1
            /\ Terminal(runs[r]) > 0 => runs[r].started = 1)
    /\ [][\A r \in RunSlots :
            Terminal(runs[r]) > 0 =>
                /\ runs'[r].started = runs[r].started
                /\ runs'[r].progressSent = runs[r].progressSent]_vars

C18_Witness ==
    \E r \in RunSlots :
        /\ runs[r].pc = "done"
        /\ runs[r].started = 1
        /\ runs[r].progressSent = 2
        /\ runs[r].completed = 1

(* C19: tests:started is broadcast only for a project that discovery found *)
(* and that can be run from the UI: a single-run request for an unknown or *)
(* non-runnable project is answered with an error and starts nothing, and  *)
(* the batch skips every project that cannot be run from the UI.           *)
C19_OnlyRunnableProjectsStart ==
    /\ [](\A r \in Started :
            /\ runs[r].project \in Discovered
            /\ runs[r].project \notin SELF_TEST_PROJECTS)
    /\ [](\A reply \in replies :
            /\ reply.endpoint = "run" =>
                  (reply.status = 200 <=>
                      (reply.projectId \in Discovered
                         /\ reply.projectId \notin SELF_TEST_PROJECTS))
            /\ reply.endpoint = "run-all" =>
                  /\ \A i \in DOMAIN reply.projects :
                         reply.projects[i] \notin SELF_TEST_PROJECTS
                  /\ reply.skipped = Discovered \cap SELF_TEST_PROJECTS)
    /\ [][\A reply \in replies' \ replies :
            reply.status # 200 => (runs' = runs /\ wire' = wire)]_vars

C19_Witness ==
    /\ Reply("run", "test-dashboard", 400) \in replies
    /\ Reply("run", "ghost", 404) \in replies
    /\ Reply("run", "constructor", 400) \in replies
    /\ Reply("run", "no/such", 400) \in replies
    /\ \E reply \in replies : reply.endpoint = "run-all"
    /\ \A r \in RunSlots : runs[r].started = 1

(* C20: within one run-all batch the projects are run one after the other: *)
(* the run of the next project is not called (no listing, no               *)
(* tests:started, no process) until the run of the previous one has        *)
(* returned or thrown, so at most one run of the batch is in flight.       *)
C20_BatchIsSequential ==
    /\ [](Cardinality({r \in RunSlots : runs[r].trigger = "batch" /\ runs[r].pc # "done"}) <= 1)
    /\ [](\A r \in {q \in RunSlots : runs[q].trigger = "batch" /\ runs[q].pc # "done"} :
             batch.pc = "looping" /\ batch.cur = r)
    /\ [][\A r \in RunSlots :
            (runs[r].pc = "idle" /\ runs'[r].pc # "idle" /\ runs'[r].trigger = "batch") =>
                \A q \in RunSlots \ {r} :
                    runs[q].trigger = "batch" =>
                        /\ runs[q].pc = "done"
                        /\ runs[q].child = "none"
                        /\ runs[q].started = 1]_vars

C20_Witness ==
    \E r, q \in RunSlots :
        /\ runs[r].trigger = "batch" /\ runs[r].project = "alpha" /\ runs[r].pc = "done"
        /\ runs[r].writeFailed
        /\ runs[q].trigger = "batch" /\ runs[q].project = "beta" /\ runs[q].pc = "running"
        /\ runs[q].started = 1

(* C21: a run of the batch that threw does not end the batch: the loop    *)
(* goes on with the next project of the acknowledgement, so that at every  *)
(* moment the projects called so far followed by those still queued are    *)
(* the acknowledged list, in its order; the batch is done only when every  *)
(* acknowledged project has been run, and once started it does get done.   *)
C21_BatchSurvivesThrow ==
    /\ [](batch.pc # "idle" => BatchCalled \o batch.queue = Acknowledged)
    /\ [](batch.pc = "done" =>
            /\ BatchCalled = Acknowledged
            /\ \A r \in RunSlots : runs[r].trigger = "batch" => runs[r].pc = "done")
    /\ [][(batch.pc = "looping" /\ batch' # batch /\ runs[batch.cur].writeFailed) =>
             IF batch.queue = <<>> THEN batch'.pc = "done"
             ELSE /\ batch'.pc = "looping"
                  /\ runs'[batch'.cur].project = Head(batch.queue)
                  /\ runs'[batch'.cur].pc = "listing"]_vars
    /\ (batch.pc = "looping" ~> batch.pc = "done")

C21_Witness ==
    /\ batch.pc = "done"
    /\ \E r, q \in RunSlots :
          /\ r < q
          /\ runs[r].trigger = "batch" /\ runs[r].project = "alpha" /\ runs[r].writeFailed
          /\ runs[q].trigger = "batch" /\ runs[q].project = "beta" /\ runs[q].completed = 1

(* C22: the single-project trigger is fire-and-forget: the acknowledgement *)
(* {message: 'Tests started', projectId} is sent in the turn that calls    *)
(* the run, before the listing has ended and before tests:started; it is   *)
(* there for every run of the trigger in every later state and is the only *)
(* answer for that project, however the run ends.                          *)
C22_FireAndForget ==
    /\ [](\A r \in RunSlots :
            (runs[r].trigger = "single" /\ runs[r].pc # "idle") =>
                /\ [endpoint |-> "run", projectId |-> runs[r].project, status |-> 200,
                    message |-> "Tests started"] \in replies
                /\ \A reply \in replies :
                       (reply.endpoint = "run" /\ reply.projectId = runs[r].project) =>
                           reply = [endpoint |-> "run", projectId |-> runs[r].project,
                                    status |-> 200, message |-> "Tests started"])
    /\ [][\A r \in RunSlots :
            (runs[r].pc = "idle" /\ runs'[r].pc # "idle" /\ runs'[r].trigger = "single") =>
                /\ Cardinality(replies' \ replies) = 1
                /\ runs'[r].pc = "listing"
                /\ runs'[r].started = 0
                /\ wire' = wire]_vars
    /\ [][replies \subseteq replies']_vars

C22_Witness ==
    \E r \in RunSlots :
        /\ runs[r].trigger = "single" /\ runs[r].pc = "done"
        /\ runs[r].errored = 1
        /\ [endpoint |-> "run", projectId |-> runs[r].project, status |-> 200,
            message |-> "Tests started"] \in replies

(* C23: for a string grep, sanitizeGrep gives null or the input without    *)
(* the characters outside [a-zA-Z0-9, whitespace, @, _, -]; null exactly   *)
(* when the input is absent or empty or what is left is empty or longer    *)
(* than 100 characters; the input itself when it has 1..100 characters,    *)
(* all allowed. The test process gets --grep with that value, and no       *)
(* --grep when it is null.                                                 *)
C23_GrepIsSanitized ==
    \A r \in Started :
        LET given == runs[r].reqGrep
            out   == runs[r].grep
            kept  == SelectSeq(given, LAMBDA c : c \in AllowedChars)
            base  == <<"playwright", "test", "--reporter=line,json">>
        IN  /\ out = NullGrep \/ (out = kept /\ \A i \in DOMAIN out : out[i] \in AllowedChars)
            /\ out = NullGrep <=>
                   (given = NoGrep \/ given = <<>> \/ kept = <<>> \/ Len(kept) > 100)
            /\ (given # NoGrep /\ kept = given /\ Len(given) \in 1 .. 100) => out = given
            /\ runs[r].started = 1 =>
                   runs[r].args = IF out = NullGrep THEN base ELSE base \o <<"--grep", out>>

C23_Witness ==
    \E r \in Started :
        /\ runs[r].reqGrep = <<"a", ";", "@">>
        /\ runs[r].grep = <<"a", "@">>
        /\ runs[r].pc = "running"
        /\ runs[r].args = <<"playwright", "test", "--reporter=line,json", "--grep", <<"a", "@">> >>

(* C24: the results, history and run endpoints answer 400 'Invalid project *)
(* ID' for an id that is not a non-empty string of [a-zA-Z0-9_-], whether  *)
(* or not discovery would yield it, and 404 'Project not found' for a      *)
(* well-formed id discovery does not yield; such a request starts no run,  *)
(* broadcasts nothing and leaves every history file as it is.              *)
C24_BadIdsAreRejected ==
    /\ [](\A reply \in replies :
            /\ reply.projectId \in InvalidIds =>
                  /\ reply.status = 400
                  /\ "error" \in DOMAIN reply => reply.error = "Invalid project ID"
            /\ (reply.projectId \notin InvalidIds /\ reply.projectId \notin Discovered) =>
                  /\ reply.status = 404
                  /\ "error" \in DOMAIN reply => reply.error = "Project not found")
    /\ [][\A reply \in replies' \ replies :
            (reply.projectId \in InvalidIds \/ reply.projectId \notin Discovered) =>
                (runs' = runs /\ wire' = wire /\ files' = files)]_vars

(* C25: for a known project that has no history file yet, the results      *)
(* endpoint answers 200 with {runs: [], lastRun: null} and the history     *)
(* endpoint 200 with an empty list, and the request creates no file.       *)
C25_AbsentLogReadsEmpty ==
    [][\A reply \in replies' \ replies :
          (/\ reply.endpoint \in {"results", "history"}
           /\ reply.projectId \in Discovered
           /\ files[reply.projectId] = Absent) =>
              /\ reply.status = 200
              /\ reply.runs = <<>>
              /\ reply.endpoint = "results" => reply.lastRun = NullObject
              /\ reply.endpoint = "history" => DOMAIN reply = {"endpoint", "projectId", "status", "runs"}
              /\ files' = files]_vars

C25_Witness ==
    /\ files["alpha"] = Absent
    /\ [endpoint |-> "results", projectId |-> "alpha", status |-> 200,
        runs |-> <<>>, lastRun |-> NullObject] \in replies
    /\ [endpoint |-> "history", projectId |-> "alpha", status |-> 200, runs |-> <<>>] \in replies

(* C26: in every state the records of a project's log have pairwise        *)
(* distinct ids, whatever the order and the timing of the appends by runs  *)
(* and uploads.                                                            *)
C26_IdsAreDistinct ==
    \A p \in Discovered :
        \A i, j \in DOMAIN StoredRuns(p) :
            i # j => StoredRuns(p)[i].id # StoredRuns(p)[j].id

(* C27: appends to one project that race leave the log intact: when the   *)
(* writes of all of them have been fulfilled the file is a well-formed log *)
(* (at most 20 records, lastRun = runs[0]) and is what one of the writers  *)
(* wrote, its record being the newest.                                     *)
C27_RacingAppendsKeepLog ==
    \A p \in Discovered :
        (Fulfilled(p) # {} /\ Rejected(p) = {} /\ Writers(p) = {}) =>
            /\ IsLog(files[p])
            /\ Len(StoredRuns(p)) \in 1 .. 20
            /\ readProjectResults(files[p]).lastRun = StoredRuns(p)[1]
            /\ StoredRuns(p)[1].by \in Fulfilled(p)

(* C28: a crash in the middle of the history write leaves the log usable:  *)
(* what a reader gets after the restart is the log as it was before the    *)
(* interrupted append or the log with the new run, and a later append      *)
(* keeps the runs that were stored (the newest record a reader has been    *)
(* given is still in the log while fewer than 20 appends followed).        *)
C28_CrashKeepsLog ==
    /\ [][(\E r \in RunSlots : runs[r].pc = "writing" /\ runs'[r].pc = "crashed") =>
             \A p \in Discovered :
                 Writers(p) # {} =>
                     ResultsOrDefault(files'[p]) \in
                         {ResultsOrDefault(files[p])} \cup
                         {readProjectResults(JSONStringify(AppendRun(w.existing, w.rec))) :
                             w \in Writers(p)}]_vars
    /\ [](\A reply \in replies :
            (/\ reply.endpoint = "results" /\ reply.status = 200
             /\ reply.runs # <<>>
             /\ IsLog(files[reply.projectId])) =>
                \E i \in DOMAIN StoredRuns(reply.projectId) :
                    StoredRuns(reply.projectId)[i] = reply.runs[1])

(* C29: the history file of a project is never read-modify-written by two *)
(* operations at once: at most one run of a project is in flight, at most  *)
(* one operation is between its read and the end of its write of the file, *)
(* and the file is changed only by the completion step of a run.           *)
C29_OneWriterPerProject ==
    /\ [](\A p \in Discovered :
            Cardinality({r \in RunSlots :
                            runs[r].project = p /\ runs[r].pc \notin {"idle", "done"}}) <= 1)
    /\ [](\A p \in Discovered :
            Cardinality({r \in RunSlots : runs[r].project = p /\ runs[r].pc = "writing"})
            + Cardinality({u \in (1 .. MaxUploads) :
                              uploads[u].project = p /\ uploads[u].pc = "writing"}) <= 1)
    /\ [][\A p \in Discovered :
            files'[p] # files[p] =>
                \E r \in RunSlots :
                    runs[r].project = p /\ runs[r].pc = "writing" /\ runs'[r].pc = "done"]_vars

(* C30: no acknowledged append is lost: a run that broadcast               *)
(* tests:completed and an upload that broadcast results:uploaded have      *)
(* their record in the runs list of the project while fewer than 20        *)
(* appends to the project followed (and no write of the file was           *)
(* rejected), however the completions of runs and uploads interleave.      *)
C30_AcknowledgedAppendsStay ==
    \A p \in Discovered :
        (Rejected(p) = {} /\ Cardinality(Fulfilled(p)) < 20) =>
            \A by \in Fulfilled(p) : HasRecordBy(p, by)

C32_AdoptionIsExact ==
    /\ [](\A r \in RunSlots : runs[r].chunks = 0 => runs[r].progress = ZeroProgress)
    /\ [][\A r \in RunSlots :
            DataStep(r) =>
                LET ls       == runs'[r].lines
                    currents == {ls[i].marker[1] : i \in {j \in DOMAIN ls : ls[j].marker # <<>>}}
                    failures == {ls[i].failure[1] : i \in {j \in DOMAIN ls : ls[j].failure # <<>>}}
                    Largest(old, seen) ==
                        CHOOSE v \in seen \cup {old} : \A w \in seen \cup {old} : w <= v
                IN  /\ runs'[r].progress.completed = Largest(runs[r].progress.completed, currents)
                    /\ runs'[r].progress.failed = Largest(runs[r].progress.failed, failures)]_vars

C32_Witness ==
    \E r \in RunSlots :
        /\ runs[r].chunks = MaxChunks
        /\ runs[r].lines = <<ProgressLine(1)>>
        /\ runs[r].progress.completed = 2
        /\ runs[r].progress.failed = 1

(* C33: every tests:progress carries the best-known expected total: once a *)
(* marker with a non-zero total has been seen in the run, every later      *)
(* tests:progress of the run carries that total. (Only the markers         *)
(* [k/MaxOrdinal] have a current value above 1, so completed > 1 tells     *)
(* that such a marker was seen.)                                           *)
C33_ProgressCarriesMarkerTotal ==
    [][\A r \in RunSlots :
          (DataStep(r) /\ runs[r].progress.completed > 1) =>
              \A i \in DOMAIN runs'[r].totals : runs'[r].totals[i] = MaxOrdinal]_vars

(* C34: the summarizer tries the candidate after the last "\n{" and falls  *)
(* back to the candidate from the first '{'; the minimal error report is   *)
(* made only when neither candidate is a parseable report. So whenever one *)
(* of the two candidates parses, the record of the run carries the suites  *)
(* and the errors of a parsed report: of the newline-preceded candidate    *)
(* when that one parses, else of the first.                                *)
C34_FallsBackToFirstBrace ==
    \A r \in RunSlots :
        (runs[r].pc \in {"reading", "writing"} /\ runs[r].result # Pending) =>
            LET t        == runs[r].result.stdout
                Parses(c) == c # NoJson /\ c # Invalid
                chosen   == IF Parses(t.nl) THEN t.nl ELSE t.first
            IN  (Parses(t.nl) \/ Parses(t.first)) =>
                    /\ runs[r].rec.suites = chosen.suites
                    /\ runs[r].rec.errors = chosen.errors

(* C35: the tests:progress events and the counters depend on the text of   *)
(* stdout and not on its chunks. A 'data' event processes the complete     *)
(* lines of buffer + chunk and keeps the text after the last newline, and  *)
(* for every place at which its chunk can be cut in two, feeding the two   *)
(* parts one after the other processes the same lines in the same order,   *)
(* sends the same events and leaves the same counters, set and buffer as   *)
(* the chunk fed whole. By induction every chunking of a text does what    *)
(* the text fed as one chunk does.                                         *)
C35_ChunkingDoesNotMatter ==
    [][\A r \in RunSlots :
          DataStep(r) =>
              LET chunk == runs'[r].chunk
                  text  == runs[r].stdoutBuffer \o chunk
                  nls   == {i \in DOMAIN text : text[i].piece = "nl"}
                  pre   == [buffer |-> runs[r].stdoutBuffer, lines |-> <<>>,
                            progress |-> runs[r].progress,
                            seen |-> runs[r].seenSkippedTests,
                            emitted |-> <<>>, totals |-> <<>>,
                            expectedTotal |-> runs[r].expectedTotal]
              IN  /\ Len(runs'[r].lines) = Cardinality(nls)
                  /\ \A i \in DOMAIN runs'[r].stdoutBuffer :
                         runs'[r].stdoutBuffer[i].piece # "nl"
                  /\ runs'[r].stdoutBuffer =
                         SubSeq(text, Len(text) - Len(runs'[r].stdoutBuffer) + 1, Len(text))
                  /\ \A i \in nls : i <= Len(text) - Len(runs'[r].stdoutBuffer)
                  /\ \A k \in 0 .. Len(chunk) :
                         LET first  == Feed(pre, SubSeq(chunk, 1, k))
                             second == Feed(first, SubSeq(chunk, k + 1, Len(chunk)))
                         IN  /\ first.lines \o second.lines = runs'[r].lines
                             /\ second.emitted = runs'[r].emitted
                             /\ second.totals = runs'[r].totals
                             /\ second.progress = runs'[r].progress
                             /\ second.seen = runs'[r].seenSkippedTests
                             /\ second.buffer = runs'[r].stdoutBuffer]_vars

C35_Witness ==
    \E r \in RunSlots :
        /\ runs[r].chunks = 2
        /\ runs[r].chunk = <<Piece("tail", ProgressLine(1)), Piece("nl", PlainLine),
                             Piece("head", FailureLine(1))>>
        /\ runs[r].lines = <<ProgressLine(1)>>
        /\ runs[r].emitted # <<>>
        /\ runs[r].stdoutBuffer = <<Piece("head", FailureLine(1))>>

(* C36: the dry listing always resolves, with a count that is not          *)
(* negative: 0 when the launch failed, when the output holds no '{' and    *)
(* when the output is not JSON. It resolves before tests:started, which    *)
(* carries the count, and the test process is spawned only after           *)
(* tests:started: whatever the listing did, the run starts.                *)
C36_ListingNeverPreventsTheRun ==
    /\ \A r \in RunSlots : (runs[r].pc = "listing") ~> (runs[r].pc = "running")
    /\ [](\A r \in RunSlots :
             /\ runs[r].expectedTotal >= 0
             /\ runs[r].pc = "listing" => (runs[r].started = 0 /\ runs[r].child = "none")
             /\ runs[r].child # "none" => runs[r].started = 1
             /\ (\/ runs[r].listing.event = "error"
                 \/ runs[r].listing.stdout.first \in {NoJson, Invalid})
                    => runs[r].expectedTotal = 0)
    /\ [][\A r \in RunSlots :
            runs'[r].started # runs[r].started =>
                /\ runs[r].pc = "listing" /\ runs[r].child = "none"
                /\ runs'[r].pc = "running" /\ runs'[r].child = "alive"
                /\ runs'[r].started = 1
                /\ runs'[r].listing \in ListingOutcomes
                /\ runs'[r].expectedTotal = getTestCount(runs'[r].listing)
                /\ wire'.calls = wire.calls + 1]_vars

C36_Witness ==
    \E r, q \in RunSlots :
        /\ runs[r].listing.event = "close" /\ runs[r].listing.stdout.first = Invalid
        /\ runs[r].expectedTotal = 0 /\ runs[r].started = 1
        /\ runs[r].chunks = 1 /\ runs[r].progress.completed = 1
        /\ runs[q].listing.event = "close" /\ runs[q].expectedTotal > 1
        /\ runs[q].child = "alive"

(* C37: the progress state is owned by one run. Every run starts with      *)
(* counters 0, an empty set and an empty buffer of its own, and a 'data'   *)
(* event of one run computes that run's counters, set, buffer and payloads *)
(* from that run's state and chunk alone and leaves the counters, set and  *)
(* buffer of every other run as they were.                                 *)
C37_ProgressStateIsPerRun ==
    /\ [](\A r \in RunSlots :
             runs[r].chunks = 0 =>
                 /\ runs[r].progress = ZeroProgress
                 /\ runs[r].seenSkippedTests = {}
                 /\ runs[r].stdoutBuffer = <<>>)
    /\ [][\A r \in RunSlots :
            DataStep(r) =>
                LET own == Feed([buffer |-> runs[r].stdoutBuffer, lines |-> <<>>,
                                 progress |-> runs[r].progress,
                                 seen |-> runs[r].seenSkippedTests,
                                 emitted |-> <<>>, totals |-> <<>>,
                                 expectedTotal |-> runs[r].expectedTotal], runs'[r].chunk)
                IN  /\ runs'[r].progress = own.progress
                    /\ runs'[r].seenSkippedTests = own.seen
                    /\ runs'[r].stdoutBuffer = own.buffer
                    /\ runs'[r].emitted = own.emitted
                    /\ \A q \in RunSlots \ {r} :
                           /\ runs'[q].progress = runs[q].progress
                           /\ runs'[q].seenSkippedTests = runs[q].seenSkippedTests
                           /\ runs'[q].stdoutBuffer = runs[q].stdoutBuffer
                           /\ runs'[q].progressSent = runs[q].progressSent]_vars

C37_Witness ==
    \E r, q \in RunSlots :
        /\ runs[r].project = "alpha" /\ runs[q].project = "beta"
        /\ runs[r].pc = "running" /\ runs[q].pc = "running"
        /\ runs[r].progress.completed = 2 /\ runs[r].seenSkippedTests = {}
        /\ runs[r].stdoutBuffer = <<Piece("head", FailureLine(1))>>
        /\ runs[q].progress.completed = 1 /\ runs[q].seenSkippedTests = {1}
        /\ runs[q].progress.failed = 1 /\ runs[q].stdoutBuffer = <<>>

(* C38: in every tests:progress payload and after every processed line the *)
(* counters completed, passed, failed and skipped are not negative,        *)
(* whatever the order of the marker lines.                                 *)
C38_CountersNotNegative ==
    \A r \in RunSlots :
        /\ \A f \in {"completed", "passed", "failed", "skipped"} : runs[r].progress[f] >= 0
        /\ \A i \in DOMAIN runs[r].emitted :
               \A f \in {"completed", "passed", "failed", "skipped"} :
                   runs[r].emitted[i][f] >= 0

(* C39: whenever no request is in progress, the counters of every session  *)
(* agree with its items: passed_items, failed_items and skipped_items are   *)
(* the numbers of its items with that status, and total_items is the number *)
(* of its items.                                                            *)
C39_SessionCountersMatchItems ==
    (\A q \in RequestSlots : manual.reqs[q].pc \in {"idle", "done"}) =>
        \A s \in RequestSlots :
            manual.sessions[s].exists =>
                LET own == {i \in manual.items : i.session_id = s}
                    With(status) == Cardinality({i \in own : i.status = status})
                IN  /\ manual.sessions[s].passed_items = With("passed")
                    /\ manual.sessions[s].failed_items = With("failed")
                    /\ manual.sessions[s].skipped_items = With("skipped")
                    /\ manual.sessions[s].total_items = Cardinality(own)

=============================================================================
